---------------------------- MODULE Spec2Model ----------------------------
(***************************************************************************)
(* A model of the tree-walking interpreter: value model and tokens         *)
(* (token.rs), scope chain (environment.rs), expression evaluation         *)
(* (expression.rs, interpret.rs), statement execution (statement.rs), the  *)
(* interpreter loop (interpret.rs), the scanner (scan.rs), the parser      *)
(* (parse.rs) and the command line driver with its exit status (main.rs).  *)
(*                                                                         *)
(* Three specifications share the variables: Spec runs the interpreter on  *)
(* generated statement lists, EnvSpec calls the methods of an Environment  *)
(* in any order, and MainSpec runs the whole process, from the source text *)
(* to the exit status, for each command.                                   *)
(*                                                                         *)
(* Conventions.  A Rust String is a TLA+ string.  Option<T> is either the  *)
(* record None or the value itself.  Result<T, E> is a record with an ok   *)
(* field.  An Environment (a scope with an owned, boxed enclosing          *)
(* Environment) is the sequence of its scopes, innermost first; each scope *)
(* is a function from the bound names to Option<value>.  A `&mut           *)
(* Environment` argument is threaded through as the env field of a result. *)
(***************************************************************************)
EXTENDS Integers, Sequences, FiniteSets, TLC

(***************************************************************************)
(* Bounds of the model.                                                    *)
(***************************************************************************)
\* Statements in a generated program, blocks and their statements counted.
MaxNodes == 4
\* Digits after the decimal point kept when a fractional number is shown.
MaxFracDigits == 6
\* Scopes on the chain of an Environment whose methods are called directly.
MaxScopes == 3
\* Graphemes in a source file given to main.
MaxSource == 4
MaxOperators == 3
MaxWords == 3

None == [type |-> "None"]

(***************************************************************************)
(* token.rs: runtime values.  A NumberLiteral holds an f32; the model      *)
(* keeps it as a sign and a fraction n/d: d = 0 with n = 1 is an infinity, *)
(* d = 0 with n = 0 is NaN, and zero keeps its sign.  Rounding to 24 bits  *)
(* of mantissa is not modelled.                                            *)
(***************************************************************************)
RECURSIVE GCD(_, _)
GCD(a, b) == IF b = 0 THEN a ELSE GCD(b, a % b)

F32(neg, n, d) ==
    IF d = 0 THEN [neg |-> (n # 0) /\ neg, n |-> IF n = 0 THEN 0 ELSE 1, d |-> 0]
    ELSE LET g == GCD(n, d) IN [neg |-> neg, n |-> n \div g, d |-> d \div g]

F32Int(i) == IF i < 0 THEN F32(TRUE, -i, 1) ELSE F32(FALSE, i, 1)

IsNaN(x) == x.d = 0 /\ x.n = 0
IsInf(x) == x.d = 0 /\ x.n = 1
IsZero(x) == x.d # 0 /\ x.n = 0
\* The numerator of a finite value, with its sign.
Signed(x) == IF x.neg THEN -x.n ELSE x.n

F32Neg(x) == IF IsNaN(x) THEN x ELSE [x EXCEPT !.neg = ~x.neg]

F32Add(x, y) ==
    IF IsNaN(x) \/ IsNaN(y) THEN F32(FALSE, 0, 0)
    ELSE IF IsInf(x) /\ IsInf(y) THEN (IF x.neg = y.neg THEN x ELSE F32(FALSE, 0, 0))
    ELSE IF IsInf(x) THEN x
    ELSE IF IsInf(y) THEN y
    ELSE LET s == Signed(x) * y.d + Signed(y) * x.d
         IN  IF s = 0 THEN F32(x.neg /\ y.neg /\ IsZero(x) /\ IsZero(y), 0, 1)
             ELSE IF s < 0 THEN F32(TRUE, -s, x.d * y.d)
             ELSE F32(FALSE, s, x.d * y.d)

F32Sub(x, y) == F32Add(x, F32Neg(y))

F32Mul(x, y) ==
    IF IsNaN(x) \/ IsNaN(y) THEN F32(FALSE, 0, 0)
    ELSE IF (IsInf(x) /\ IsZero(y)) \/ (IsZero(x) /\ IsInf(y)) THEN F32(FALSE, 0, 0)
    ELSE IF IsInf(x) \/ IsInf(y) THEN F32(x.neg # y.neg, 1, 0)
    ELSE F32(x.neg # y.neg, x.n * y.n, x.d * y.d)

F32Div(x, y) ==
    IF IsNaN(x) \/ IsNaN(y) THEN F32(FALSE, 0, 0)
    ELSE IF (IsInf(x) /\ IsInf(y)) \/ (IsZero(x) /\ IsZero(y)) THEN F32(FALSE, 0, 0)
    ELSE IF IsInf(x) \/ IsZero(y) THEN F32(x.neg # y.neg, 1, 0)
    ELSE IF IsInf(y) THEN F32(x.neg # y.neg, 0, 1)
    ELSE F32(x.neg # y.neg, x.n * y.d, x.d * y.n)

\* x < y on f32: false whenever a NaN is involved; the two zeros are equal.
F32Less(x, y) ==
    IF IsNaN(x) \/ IsNaN(y) THEN FALSE
    ELSE IF IsInf(x) THEN x.neg /\ ~(IsInf(y) /\ y.neg)
    ELSE IF IsInf(y) THEN ~y.neg
    ELSE Signed(x) * y.d < Signed(y) * x.d

F32Eq(x, y) ==
    IF IsNaN(x) \/ IsNaN(y) THEN FALSE
    ELSE IF IsInf(x) \/ IsInf(y) THEN x = y
    ELSE Signed(x) * y.d = Signed(y) * x.d

RECURSIVE FracDigits(_, _, _)
FracDigits(r, d, k) ==
    IF r = 0 \/ k = 0 THEN ""
    ELSE ToString((r * 10) \div d) \o FracDigits((r * 10) % d, d, k - 1)

\* f32's Display: the shortest decimal text; a whole number has no fraction.
F32ToString(x) ==
    IF IsNaN(x) THEN "NaN"
    ELSE (IF x.neg THEN "-" ELSE "") \o
         (IF IsInf(x) THEN "inf"
          ELSE IF x.n % x.d = 0 THEN ToString(x.n \div x.d)
          ELSE ToString(x.n \div x.d) \o "." \o FracDigits(x.n % x.d, x.d, MaxFracDigits))

\* f32::fract() == 0.0: an infinity and NaN have a NaN fraction.
FractIsZero(x) == x.d # 0 /\ x.n % x.d = 0

NumberLiteral(x) == [type |-> "NumberLiteral", value |-> x]
StringLiteral(s) == [type |-> "StringLiteral", value |-> s]
BooleanLiteral(b) == [type |-> "BooleanLiteral", value |-> b]
NilLiteral == [type |-> "NilLiteral"]

print_value(v) ==
    CASE v.type = "NumberLiteral" ->
            IF FractIsZero(v.value)
            THEN (IF v.value.neg THEN "-" ELSE "") \o ToString(v.value.n \div v.value.d) \o ".0"
            ELSE F32ToString(v.value)
      [] v.type = "StringLiteral" -> v.value
      [] v.type = "BooleanLiteral" -> IF ~v.value THEN "false" ELSE "true"
      [] v.type = "NilLiteral" -> "nil"

(***************************************************************************)
(* token.rs: Token.                                                        *)
(***************************************************************************)
Token(token_type, lexeme, literal, line) ==
    [token_type |-> token_type, lexeme |-> lexeme, literal |-> literal, line |-> line]

(***************************************************************************)
(* expression.rs: RuntimeError and its Display.                            *)
(***************************************************************************)
RuntimeError(token, message) == [token |-> token, message |-> message]

RuntimeErrorDisplay(e) == e.message \o "\n[line " \o ToString(e.token.line) \o "]"

Ok(x) == [ok |-> TRUE, value |-> x]
Err(e) == [ok |-> FALSE, error |-> e]

(***************************************************************************)
(* environment.rs: Environment.                                            *)
(***************************************************************************)
EmptyValues == [k \in {} |-> None]

Insert(values, key, value) ==
    [k \in DOMAIN values \cup {key} |-> IF k = key THEN value ELSE values[k]]

\* Environment::new(enclosing): enclosing is <<>> for Option::None.
EnvironmentNew(enclosing) == <<EmptyValues>> \o enclosing

define(env, name, value) == [env EXCEPT ![1] = Insert(env[1], name, value)]

UndefinedVariable(name) ==
    RuntimeError(name, "Undefined variable '" \o name.lexeme \o "'.")

\* Mutant: the outermost scope that holds the name wins.
RECURSIVE get(_, _)
get_OuterFirst(env, name) ==
    IF Len(env) > 1 /\ get(Tail(env), name).ok THEN get(Tail(env), name)
    ELSE IF name.lexeme \in DOMAIN env[1] THEN Ok(env[1][name.lexeme])
    ELSE Err(UndefinedVariable(name))

get(env, name) ==
    IF name.lexeme \in DOMAIN env[1] THEN Ok(env[1][name.lexeme])
    ELSE IF Len(env) > 1 THEN get(Tail(env), name)
    ELSE Err(UndefinedVariable(name))

\* Mutant: a name no scope holds is declared in the outermost scope.
RECURSIVE assign(_, _, _)
assign_Declare(env, name, value) ==
    IF name.lexeme \in DOMAIN env[1]
    THEN [ok |-> TRUE, env |-> [env EXCEPT ![1] = Insert(env[1], name.lexeme, value)]]
    ELSE IF Len(env) > 1
    THEN LET r == assign(Tail(env), name, value)
         IN  IF r.ok THEN [ok |-> TRUE, env |-> <<env[1]>> \o r.env]
             ELSE [ok |-> FALSE, env |-> env, error |-> r.error]
    ELSE [ok |-> TRUE, env |-> [env EXCEPT ![1] = Insert(env[1], name.lexeme, value)]]

\* assign returns the Result and the environment as the call leaves it.
assign(env, name, value) ==
    IF name.lexeme \in DOMAIN env[1]
    THEN [ok |-> TRUE, env |-> [env EXCEPT ![1] = Insert(env[1], name.lexeme, value)]]
    ELSE IF Len(env) > 1
    THEN LET r == assign(Tail(env), name, value)
         IN  IF r.ok THEN [ok |-> TRUE, env |-> <<env[1]>> \o r.env]
             ELSE [ok |-> FALSE, env |-> env, error |-> r.error]
    ELSE [ok |-> FALSE, env |-> env, error |-> UndefinedVariable(name)]

revert_to(env, target) == [env EXCEPT ![1] = target[1]]

\* Environment::enclosing(): <<>> for Option::None.
enclosing(env) == Tail(env)

(***************************************************************************)
(* interpret.rs: is_truthy, is_equal.                                      *)
(***************************************************************************)
\* Mutant: the number 0 and the empty string are falsy as well.
is_truthy_ZeroFalsy(expr) ==
    CASE expr.type = "NilLiteral" -> FALSE
      [] expr.type = "BooleanLiteral" -> print_value(expr) # "false"
      [] expr.type = "NumberLiteral" -> print_value(expr) # "0.0"
      [] expr.type = "StringLiteral" -> print_value(expr) # ""
      [] OTHER -> TRUE

is_truthy(expr) ==
    CASE expr.type = "NilLiteral" -> FALSE
      [] expr.type = "BooleanLiteral" -> print_value(expr) # "false"
      [] OTHER -> TRUE

is_equal(left, right) == print_value(left) = print_value(right)

(***************************************************************************)
(* expression.rs: the Expression nodes and their evaluate methods.         *)
(* Evaluate returns [ok, value | error, env]: env is the environment as    *)
(* the call leaves it.                                                     *)
(***************************************************************************)
LiteralExpr(value) == [type |-> "Literal", value |-> value]
VariableExpr(name) == [type |-> "Variable", name |-> name]
AssignExpr(name, value) == [type |-> "Assign", name |-> name, value |-> value]
GroupingExpr(expression) == [type |-> "Grouping", expression |-> expression]
UnaryExpr(operator, right) == [type |-> "Unary", operator |-> operator, right |-> right]
BinaryExpr(left, operator, right) ==
    [type |-> "Binary", left |-> left, operator |-> operator, right |-> right]

EvalOk(value, env) == [ok |-> TRUE, value |-> value, env |-> env]
EvalErr(error, env) == [ok |-> FALSE, error |-> error, env |-> env]

\* Mutant: `+` turns a Number operand into its text when the other operand
\* is a String, and concatenates.
BinaryApply_Coerce(operator, left, right, env) ==
    LET t == operator.token_type
        bothNumbers == left.type = "NumberLiteral" /\ right.type = "NumberLiteral"
        bothStrings == left.type = "StringLiteral" /\ right.type = "StringLiteral"
        \* print_value followed by parse::<f32>() gives the f32 back.
        l == left.value
        r == right.value
    IN  IF t = "BANG_EQUAL" THEN EvalOk(BooleanLiteral(~is_equal(left, right)), env)
        ELSE IF t = "EQUAL_EQUAL" THEN EvalOk(BooleanLiteral(is_equal(left, right)), env)
        ELSE IF bothNumbers /\ t = "MINUS" THEN EvalOk(NumberLiteral(F32Sub(l, r)), env)
        ELSE IF bothNumbers /\ t = "SLASH" THEN EvalOk(NumberLiteral(F32Div(l, r)), env)
        ELSE IF bothNumbers /\ t = "STAR" THEN EvalOk(NumberLiteral(F32Mul(l, r)), env)
        ELSE IF bothNumbers /\ t = "PLUS" THEN EvalOk(NumberLiteral(F32Add(l, r)), env)
        ELSE IF bothNumbers /\ t = "GREATER" THEN EvalOk(BooleanLiteral(F32Less(r, l)), env)
        ELSE IF bothNumbers /\ t = "GREATER_EQUAL"
             THEN EvalOk(BooleanLiteral(F32Less(r, l) \/ F32Eq(l, r)), env)
        ELSE IF bothNumbers /\ t = "LESS" THEN EvalOk(BooleanLiteral(F32Less(l, r)), env)
        ELSE IF bothNumbers /\ t = "LESS_EQUAL"
             THEN EvalOk(BooleanLiteral(F32Less(l, r) \/ F32Eq(l, r)), env)
        ELSE IF ~bothNumbers /\ bothStrings /\ t = "PLUS"
             THEN EvalOk(StringLiteral(l \o r), env)
        ELSE IF t = "PLUS" /\ {left.type, right.type} = {"NumberLiteral", "StringLiteral"}
             THEN EvalOk(StringLiteral(print_value(left) \o print_value(right)), env)
        ELSE IF ~bothNumbers /\ bothStrings
             THEN EvalErr(RuntimeError(operator, "Operands must be numbers."), env)
        ELSE EvalErr(RuntimeError(operator, "Operands must be numbers or strings."), env)

\* BinaryExpr::evaluate once both operands are Some.
BinaryApply(operator, left, right, env) ==
    LET t == operator.token_type
        bothNumbers == left.type = "NumberLiteral" /\ right.type = "NumberLiteral"
        bothStrings == left.type = "StringLiteral" /\ right.type = "StringLiteral"
        \* print_value followed by parse::<f32>() gives the f32 back.
        l == left.value
        r == right.value
    IN  IF t = "BANG_EQUAL" THEN EvalOk(BooleanLiteral(~is_equal(left, right)), env)
        ELSE IF t = "EQUAL_EQUAL" THEN EvalOk(BooleanLiteral(is_equal(left, right)), env)
        ELSE IF bothNumbers /\ t = "MINUS" THEN EvalOk(NumberLiteral(F32Sub(l, r)), env)
        ELSE IF bothNumbers /\ t = "SLASH" THEN EvalOk(NumberLiteral(F32Div(l, r)), env)
        ELSE IF bothNumbers /\ t = "STAR" THEN EvalOk(NumberLiteral(F32Mul(l, r)), env)
        ELSE IF bothNumbers /\ t = "PLUS" THEN EvalOk(NumberLiteral(F32Add(l, r)), env)
        ELSE IF bothNumbers /\ t = "GREATER" THEN EvalOk(BooleanLiteral(F32Less(r, l)), env)
        ELSE IF bothNumbers /\ t = "GREATER_EQUAL"
             THEN EvalOk(BooleanLiteral(F32Less(r, l) \/ F32Eq(l, r)), env)
        ELSE IF bothNumbers /\ t = "LESS" THEN EvalOk(BooleanLiteral(F32Less(l, r)), env)
        ELSE IF bothNumbers /\ t = "LESS_EQUAL"
             THEN EvalOk(BooleanLiteral(F32Less(l, r) \/ F32Eq(l, r)), env)
        ELSE IF ~bothNumbers /\ bothStrings /\ t = "PLUS"
             THEN EvalOk(StringLiteral(l \o r), env)
        ELSE IF ~bothNumbers /\ bothStrings
             THEN EvalErr(RuntimeError(operator, "Operands must be numbers."), env)
        ELSE EvalErr(RuntimeError(operator, "Operands must be numbers or strings."), env)

\* UnaryExpr::evaluate once the operand is Some.
UnaryApply(operator, right, env) ==
    IF operator.token_type = "MINUS"
    THEN IF right.type # "NumberLiteral"
         THEN EvalErr(RuntimeError(operator, "Operand must be a number."), env)
         ELSE EvalOk(NumberLiteral(F32Neg(right.value)), env)
    ELSE IF operator.token_type = "BANG"
    THEN EvalOk(BooleanLiteral(~is_truthy(right)), env)
    ELSE EvalErr(RuntimeError(operator, "Operand must be a number."), env)

\* AssignExpr::evaluate once the value expression has evaluated to v.
AssignApply(name, v, env) ==
    IF v # None
    THEN LET a == assign(env, name, v)
         IN  IF a.ok THEN EvalOk(v, a.env) ELSE EvalErr(a.error, a.env)
    ELSE EvalOk(None, env)

RECURSIVE Evaluate(_, _)
Evaluate(expr, env) ==
    CASE expr.type = "Literal" -> EvalOk(expr.value, env)
      [] expr.type = "Grouping" -> Evaluate(expr.expression, env)
      [] expr.type = "Variable" ->
            LET g == get(env, expr.name)
            IN  IF g.ok THEN EvalOk(g.value, env) ELSE EvalErr(g.error, env)
      [] expr.type = "Assign" ->
            LET v == Evaluate(expr.value, env)
            IN  IF ~v.ok THEN v ELSE AssignApply(expr.name, v.value, v.env)
      [] expr.type = "Unary" ->
            LET r == Evaluate(expr.right, env)
            IN  IF ~r.ok THEN r
                ELSE IF r.value # None THEN UnaryApply(expr.operator, r.value, r.env)
                ELSE EvalErr(RuntimeError(expr.operator,
                                          "Expected value in unary expression"), r.env)
      [] expr.type = "Binary" ->
            LET l == Evaluate(expr.left, env)
            IN  IF ~l.ok THEN l
                ELSE LET r == Evaluate(expr.right, l.env)
                     IN  IF ~r.ok THEN r
                         ELSE IF l.value # None /\ r.value # None
                         THEN BinaryApply(expr.operator, l.value, r.value, r.env)
                         ELSE EvalErr(RuntimeError(expr.operator,
                                                   "expected value in expression"), r.env)

(***************************************************************************)
(* statement.rs: the Statement nodes, and evaluate of the three statements *)
(* that hold no other statement.  The result is [ok, error, env, out,      *)
(* err]: out and err are the lines the call writes to standard output and  *)
(* to standard error.                                                      *)
(***************************************************************************)
ExpressionStmt(value) == [type |-> "Expression", value |-> value]
PrintStmt(value) == [type |-> "Print", value |-> value]
VarStmt(name, initializer) == [type |-> "Var", name |-> name, initializer |-> initializer]
BlockStmt(stmts) == [type |-> "Block", stmts |-> stmts]

StmtOk(env, out, err) == [ok |-> TRUE, env |-> env, out |-> out, err |-> err]
StmtErr(error, env, out, err) ==
    [ok |-> FALSE, error |-> error, env |-> env, out |-> out, err |-> err]

ExpressionStmtEvaluate(s, env) ==
    LET v == Evaluate(s.value, env)
    IN  IF v.ok THEN StmtOk(v.env, <<>>, <<>>)
        ELSE StmtErr(v.error, v.env, <<>>, <<>>)

\* The text println! writes for a value: a number is parsed back from its
\* print_value and shown by f32's Display.
PrintedText(v) ==
    IF v.type = "NumberLiteral" THEN F32ToString(v.value) ELSE print_value(v)

PrintStmtEvaluate(s, env) ==
    LET v == Evaluate(s.value, env)
    IN  IF v.ok
        THEN IF v.value # None
             THEN StmtOk(v.env, <<PrintedText(v.value)>>, <<>>)
             ELSE StmtOk(v.env, <<"nil">>, <<>>)
        ELSE StmtErr(v.error, v.env, <<>>,
                     <<"Error while evaluating print statement: "
                         \o RuntimeErrorDisplay(v.error)>>)

VarStmtEvaluate(s, env) ==
    IF s.initializer # None
    THEN LET v == Evaluate(s.initializer, env)
         IN  IF v.ok THEN StmtOk(define(v.env, s.name.lexeme, v.value), <<>>, <<>>)
             ELSE StmtErr(v.error, v.env, <<>>, <<>>)
    ELSE StmtOk(define(env, s.name.lexeme, None), <<>>, <<>>)

SimpleStmtEvaluate(s, env) ==
    CASE s.type = "Expression" -> ExpressionStmtEvaluate(s, env)
      [] s.type = "Print" -> PrintStmtEvaluate(s, env)
      [] s.type = "Var" -> VarStmtEvaluate(s, env)

(***************************************************************************)
(* The programs the interpreter is run on: every statement list of at most *)
(* MaxNodes statements, blocks and the statements inside them counted,     *)
(* over two variables.  Each statement starts on a line of its own (a `}`  *)
(* ends the line before it), so a token's line tells the statements apart. *)
(***************************************************************************)
Ident(lexeme, line) == Token("IDENTIFIER", lexeme, None, line)
Num(i) == LiteralExpr(NumberLiteral(F32Int(i)))

\* The simple statements a generated program is made of, by their text.
SimpleKinds ==
    {"var a = 1;", "var a = 2;", "var b;", "var b = a;", "a = 3;", "a = b;", "print a;"}

SimpleStmt(kind, line) ==
    CASE kind = "var a = 1;" -> VarStmt(Ident("a", line), Num(1))
      [] kind = "var a = 2;" -> VarStmt(Ident("a", line), Num(2))
      [] kind = "var b;" -> VarStmt(Ident("b", line), None)
      [] kind = "var b = a;" -> VarStmt(Ident("b", line), VariableExpr(Ident("a", line)))
      [] kind = "a = 3;" -> ExpressionStmt(AssignExpr(Ident("a", line), Num(3)))
      [] kind = "a = b;" ->
            ExpressionStmt(AssignExpr(Ident("a", line), VariableExpr(Ident("b", line))))
      [] kind = "print a;" -> PrintStmt(VariableExpr(Ident("a", line)))

\* The shapes of the statement lists of exactly n statements: which
\* statements are blocks, and of what.
RECURSIVE Shapes(_)
Shapes(n) ==
    IF n = 0 THEN {<<>>}
    ELSE { <<[block |-> FALSE]>> \o rest : rest \in Shapes(n - 1) }
         \cup UNION { { <<[block |-> TRUE, stmts |-> inner]>> \o rest :
                           inner \in Shapes(i), rest \in Shapes(n - 1 - i) } :
                      i \in 0..(n - 1) }

RECURSIVE CountNodes(_), CountSimple(_)
CountNodes(shape) ==
    IF shape = <<>> THEN 0
    ELSE 1 + (IF Head(shape).block THEN CountNodes(Head(shape).stmts) ELSE 0)
           + CountNodes(Tail(shape))
CountSimple(shape) ==
    IF shape = <<>> THEN 0
    ELSE (IF Head(shape).block THEN CountSimple(Head(shape).stmts) ELSE 1)
         + CountSimple(Tail(shape))

\* The statement list of a shape: its k-th simple statement, counted from
\* `first`, is of kind kinds[k]; its first statement is on the given line.
RECURSIVE StmtList(_, _, _, _)
StmtList(shape, kinds, first, line) ==
    IF shape = <<>> THEN <<>>
    ELSE IF ~Head(shape).block
    THEN <<SimpleStmt(kinds[first], line)>>
         \o StmtList(Tail(shape), kinds, first + 1, line + 1)
    ELSE <<BlockStmt(StmtList(Head(shape).stmts, kinds, first, line + 1))>>
         \o StmtList(Tail(shape), kinds, first + CountSimple(Head(shape).stmts),
                     line + 1 + CountNodes(Head(shape).stmts))

ProgramShapes == UNION { Shapes(n) : n \in 0..MaxNodes }


(***************************************************************************)
(* interpret.rs, statement.rs: the run of Interpreter::interpret.  Each    *)
(* element of stack is one active loop over a statement list: the first is *)
(* the loop of Interpreter::interpret over self.statements, against        *)
(* self.environment; every further one is the loop of a                    *)
(* BlockStmt::evaluate, with its locals `previous` and `enclosing` (env).  *)
(* The `env` argument of a BlockStmt::evaluate is the env of the element   *)
(* below it.                                                               *)
(***************************************************************************)
VARIABLES
    stack,      \* the active statement loops, outermost first
    raised,     \* the Err(e) being returned up the calls, or None
    stdout,     \* the lines written to standard output
    stderr,     \* the lines written to standard error
    exit_code,  \* the process exit status, None while the process runs
    executed    \* history: every call of a statement's evaluate, in the order the
                \* calls were made: the statement's path, and whether the call has
                \* not returned Err (a block is recorded when it is entered)

\* environment.rs: an Environment under the calls of its methods.
VARIABLES
    environment, \* the Environment the methods are called on
    call         \* history: the last call, its arguments, the Environment
                 \* before it and its result; None before the first call

\* main.rs, scan.rs: the process from its start to the call of the interpreter.
VARIABLES
    command,    \* args[1]
    scanner,    \* the Scanner of tokenize(), None when there is none
    parsed,     \* the result of parse() or parse_(), None before the call
    panicked    \* TRUE once a panic has ended the process

interpretVars == <<stack, raised, stdout, stderr, exit_code, executed>>
envVars == <<environment, call>>
mainVars == <<command, scanner, parsed, panicked>>
vars == <<interpretVars, envVars, mainVars>>

\* std::process::ExitCode
ExitCode(code) == [type |-> "ExitCode", code |-> code]

Frame(stmts, env, previous) ==
    [stmts |-> stmts, pc |-> 1, env |-> env, previous |-> previous]

Top == stack[Len(stack)]
Running == stack # <<>> /\ raised = None /\ exit_code = None
AtStatement == Running /\ Top.pc <= Len(Top.stmts)
Current == Top.stmts[Top.pc]
\* The position of the current statement: its index in each enclosing list.
Path == [i \in 1..Len(stack) |-> stack[i].pc]

\* Interpreter::new(statements)
Init ==
    /\ \E shape \in ProgramShapes : \E kinds \in [1..CountSimple(shape) -> SimpleKinds] :
          stack = <<Frame(StmtList(shape, kinds, 1, 1), EnvironmentNew(<<>>), <<>>)>>
    /\ raised = None
    /\ stdout = <<>>
    /\ stderr = <<>>
    /\ exit_code = None
    /\ executed = <<>>
    /\ environment = <<>> /\ call = None
    /\ command = "run" /\ scanner = None /\ parsed = None /\ panicked = FALSE

\* s.evaluate(env) for an expression, print or var statement, and the match
\* on its result in the loop that called it.
StatementEvaluate ==
    /\ AtStatement
    /\ Current.type # "Block"
    /\ LET r == SimpleStmtEvaluate(Current, Top.env)
       IN  /\ stack' = [stack EXCEPT ![Len(stack)] =
                           [@ EXCEPT !.env = r.env,
                                     !.pc = IF r.ok THEN @ + 1 ELSE @]]
           /\ raised' = IF r.ok THEN None ELSE r.error
           /\ stdout' = stdout \o r.out
           /\ stderr' = stderr \o r.err
    /\ executed' = Append(executed, [path |-> Path,
                                     ok |-> SimpleStmtEvaluate(Current, Top.env).ok])
    /\ UNCHANGED <<exit_code, envVars, mainVars>>

\* BlockStmt::evaluate, up to its loop.
BlockEnter ==
    /\ AtStatement
    /\ Current.type = "Block"
    /\ stack' = Append(stack, Frame(Current.stmts, EnvironmentNew(Top.env), Top.env))
    /\ executed' = Append(executed, [path |-> Path, ok |-> TRUE])
    /\ UNCHANGED <<raised, stdout, stderr, exit_code, envVars, mainVars>>

\* Mutant: the block's own scope is copied out to the caller.
BlockExitEnv_Leak(env, frame) == revert_to(env, frame.env)

\* The environment of the caller once a block's loop has ended normally.
BlockExitEnv(env, frame) == revert_to(env, enclosing(frame.env))

\* BlockStmt::evaluate, after its loop: env.revert_to(outer); Ok(()).
BlockExit ==
    /\ Running
    /\ Len(stack) > 1
    /\ Top.pc > Len(Top.stmts)
    /\ stack' = [SubSeq(stack, 1, Len(stack) - 1) EXCEPT ![Len(stack) - 1] =
                    [@ EXCEPT !.env = BlockExitEnv(@, Top), !.pc = @ + 1]]
    /\ UNCHANGED <<raised, stdout, stderr, exit_code, executed, envVars, mainVars>>

\* Mutant: the error path ends the block as the normal path does, keeping
\* what the block assigned.
BlockErrEnv_KeepAssigned(env, frame) == revert_to(env, enclosing(frame.env))

\* The environment of the caller once a statement of the block has failed.
BlockErrEnv(env, frame) == revert_to(env, frame.previous)

\* Mutant: the block swallows the error of its statement and returns Ok(()).
BlockErr_Recover ==
    /\ raised # None
    /\ exit_code = None
    /\ Len(stack) > 1
    /\ stack' = [SubSeq(stack, 1, Len(stack) - 1) EXCEPT ![Len(stack) - 1] =
                    [@ EXCEPT !.env = revert_to(@, Top.previous), !.pc = @ + 1]]
    /\ raised' = None
    /\ UNCHANGED <<stdout, stderr, exit_code, executed, envVars, mainVars>>

\* BlockStmt::evaluate, the Err arm of its loop: env.revert_to(&previous);
\* return Err(e).
BlockErr ==
    /\ raised # None
    /\ exit_code = None
    /\ Len(stack) > 1
    /\ stack' = [SubSeq(stack, 1, Len(stack) - 1) EXCEPT ![Len(stack) - 1] =
                    [@ EXCEPT !.env = BlockErrEnv(@, Top)]]
    /\ UNCHANGED <<raised, stdout, stderr, exit_code, executed, envVars, mainVars>>

\* Interpreter::interpret returns Ok(()); main's "run" arm exits with SUCCESS.
InterpretOk ==
    /\ Running
    /\ Len(stack) = 1
    /\ Top.pc > Len(Top.stmts)
    /\ exit_code' = ExitCode(0)
    /\ UNCHANGED <<stack, raised, stdout, stderr, executed, envVars, mainVars>>

\* Interpreter::interpret returns Err(e); main's "run" arm exits with 70.
InterpretErr ==
    /\ raised # None
    /\ exit_code = None
    /\ Len(stack) = 1
    /\ exit_code' = ExitCode(70)
    /\ UNCHANGED <<stack, raised, stdout, stderr, executed, envVars, mainVars>>

Next ==
    \/ StatementEvaluate
    \/ BlockEnter
    \/ BlockExit
    \/ BlockErr
    \/ InterpretOk
    \/ InterpretErr

Spec == Init /\ [][Next]_vars

(***************************************************************************)
(* Properties of the run of a program.                                     *)
(***************************************************************************)
\* A step that ends a block normally, and one that ends it with an error.
BlockExitStep == Running /\ Len(stack) > 1 /\ Len(stack') = Len(stack) - 1
BlockErrStep == raised # None /\ Len(stack) > 1 /\ Len(stack') = Len(stack) - 1
\* The environment of the block's caller after such a step.
CallerEnvAfter == stack'[Len(stack')].env

Bound(env, lexeme) == \E i \in 1..Len(env) : lexeme \in DOMAIN env[i]
ScopeNames(env) == [i \in 1..Len(env) |-> DOMAIN env[i]]

RECURSIVE ExprAssigns(_, _)
ExprAssigns(expr, lexeme) ==
    CASE expr.type = "Assign" ->
            expr.name.lexeme = lexeme \/ ExprAssigns(expr.value, lexeme)
      [] expr.type = "Grouping" -> ExprAssigns(expr.expression, lexeme)
      [] expr.type = "Unary" -> ExprAssigns(expr.right, lexeme)
      [] expr.type = "Binary" ->
            ExprAssigns(expr.left, lexeme) \/ ExprAssigns(expr.right, lexeme)
      [] OTHER -> FALSE

RECURSIVE StmtAssigns(_, _)
StmtAssigns(s, lexeme) ==
    CASE s.type = "Block" -> \E i \in 1..Len(s.stmts) : StmtAssigns(s.stmts[i], lexeme)
      [] s.type = "Var" -> s.initializer # None /\ ExprAssigns(s.initializer, lexeme)
      [] OTHER -> ExprAssigns(s.value, lexeme)

Declares(s, lexeme) == s.type = "Var" /\ s.name.lexeme = lexeme

\* Some statement of the list, up to and including its first `var lexeme`,
\* holds an assignment to lexeme.
AssignedBeforeDecl(stmts, lexeme) ==
    \E i \in 1..Len(stmts) :
        /\ StmtAssigns(stmts[i], lexeme)
        /\ \A j \in 1..(i - 1) : ~Declares(stmts[j], lexeme)

\* var a = 1; { var a = 2; } print a;
ShadowProgram ==
    << VarStmt(Ident("a", 1), Num(1)),
       BlockStmt(<<VarStmt(Ident("a", 3), Num(2))>>),
       PrintStmt(VariableExpr(Ident("a", 4))) >>

\* C1: a `var` inside a block changes only the block's own scope.  When a
\* block ends normally, every scope of the chain that was active before the
\* block binds the names it bound when the block was entered, and a name the
\* block declared, and did not assign before declaring it, reads outside as
\* it read before the block; `var a = 1; { var a = 2; } print a;` prints 1.
C1_VarStaysInBlock ==
    /\ [](stack[1].stmts = ShadowProgram /\ exit_code # None => stdout = <<"1">>)
    /\ [][BlockExitStep =>
            /\ ScopeNames(CallerEnvAfter) = ScopeNames(Top.previous)
            /\ \A lexeme \in DOMAIN Top.env[1] :
                  Bound(Top.previous, lexeme) /\ ~AssignedBeforeDecl(Top.stmts, lexeme)
                  => get(CallerEnvAfter, Ident(lexeme, 1)) = get(Top.previous, Ident(lexeme, 1))
         ]_vars

\* C1 witness: the shadowing block of ShadowProgram has ended and the outer a
\* is still 1.
C1_Witness ==
    /\ stack[1].stmts = ShadowProgram
    /\ Len(stack) = 1
    /\ Top.pc = 3
    /\ raised = None
    /\ Top.env[1]["a"] = NumberLiteral(F32Int(1))

\* C2 (as claimed): an assignment made in a block to a variable of an
\* enclosing scope stays visible when the block has ended, at every nesting
\* depth: when a block ends normally, every name reads in its caller as it
\* read in the block through the block's enclosing scopes.
C2_OuterAssignVisible ==
    [][BlockExitStep =>
          \A lexeme \in {"a", "b"} :
              get(CallerEnvAfter, Ident(lexeme, 1)) = get(enclosing(Top.env), Ident(lexeme, 1))
      ]_vars

PreviousIsCallerEnv == \A i \in 2..Len(stack) : stack[i].previous = stack[i - 1].env

\* C3: when a statement of a block fails, then once the error has left the
\* block the scope chain that was active before the block holds the names and
\* values it held when the block was entered (which the block keeps as
\* `previous`, and which its caller's environment still equals while the
\* block runs), whatever the block assigned before the failing statement.
C3_ErrorRestoresScope ==
    /\ []PreviousIsCallerEnv
    /\ [][BlockErrStep => CallerEnvAfter = Top.previous]_vars

\* var a = 1; { a = 3; a = b; }
AssignThenFailProgram ==
    << VarStmt(Ident("a", 1), Num(1)),
       BlockStmt(<< ExpressionStmt(AssignExpr(Ident("a", 3), Num(3))),
                    ExpressionStmt(AssignExpr(Ident("a", 4),
                                              VariableExpr(Ident("b", 4)))) >>) >>

\* C3 witness: the block of AssignThenFailProgram assigned a, then failed,
\* and the error has left the block: a is 1 again.
C3_Witness ==
    /\ stack[1].stmts = AssignThenFailProgram
    /\ Len(stack) = 1
    /\ raised # None
    /\ Len(executed) = 4
    /\ Top.env[1]["a"] = NumberLiteral(F32Int(1))

RECURSIVE PreOrder(_, _)
\* The paths of the statements of a list, in program order; prefix is the
\* path of the block that holds the list.
PreOrder(stmts, prefix) ==
    IF stmts = <<>> THEN <<>>
    ELSE LET RECURSIVE From(_)
             From(i) ==
                 IF i > Len(stmts) THEN <<>>
                 ELSE <<Append(prefix, i)>>
                      \o (IF stmts[i].type = "Block"
                          THEN PreOrder(stmts[i].stmts, Append(prefix, i)) ELSE <<>>)
                      \o From(i + 1)
         IN  From(1)

Failed == \E i \in 1..Len(executed) : ~executed[i].ok
ExecutedPaths == [i \in 1..Len(executed) |-> executed[i].path]
IsPrefix(s, t) == Len(s) <= Len(t) /\ s = SubSeq(t, 1, Len(s))

\* C4: statements are executed in program order, all of them when the run
\* succeeds, and once a statement has failed no further statement is
\* executed, no line is written to standard output and no binding of a scope
\* still alive changes.
C4_OrderAndAbort ==
    /\ [](IsPrefix(ExecutedPaths, PreOrder(stack[1].stmts, <<>>)))
    /\ [](exit_code = ExitCode(0) => ExecutedPaths = PreOrder(stack[1].stmts, <<>>))
    /\ [][Failed =>
            /\ executed' = executed
            /\ stdout' = stdout
            /\ \A i \in 1..Len(stack') : stack'[i].env = stack[i].env
         ]_vars

\* C4 witness: the statement of a block failed, a print follows the block
\* and was not run, and the process has exited.
C4_Witness ==
    /\ exit_code = ExitCode(70)
    /\ Len(executed) = 3
    /\ ~executed[3].ok
    /\ Len(executed[3].path) = 2
    /\ Len(stack[1].stmts) = 3
    /\ stack[1].stmts[3].type = "Print"
    /\ stdout = <<>>

\* C5 (as claimed): an assignment expression whose target is bound in no
\* scope fails with the undefined-variable error on the target's token,
\* whenever its value expression evaluates without error, be the value
\* absent or not.
C5_AssignUndefinedFails ==
    (AtStatement /\ Current.type = "Expression" /\ Current.value.type = "Assign")
    => LET target == Current.value.name
           v == Evaluate(Current.value.value, Top.env)
           r == Evaluate(Current.value, Top.env)
       IN  (v.ok /\ ~Bound(v.env, target.lexeme))
           => (~r.ok /\ r.error = UndefinedVariable(target))

\* The line is the Display of the error, after one of the prefixes the
\* program puts before it.
Reports(line, e) ==
    \E prefix \in {"", "Error: ", "Error while evaluating print statement: "} :
        line = prefix \o RuntimeErrorDisplay(e)

\* C10 (as claimed): when a run ends with a runtime error, the error's
\* message and line have been written to standard error by the time the
\* process exits.
C10_RuntimeErrorReported ==
    (exit_code # None /\ raised # None)
    => \E i \in 1..Len(stderr) : Reports(stderr[i], raised)


(***************************************************************************)
(* environment.rs: the methods of Environment, called in any order on a    *)
(* chain of at most MaxScopes scopes.                                      *)
(***************************************************************************)
EnvNames == {"a", "b"}
EnvLines == {1, 2}
EnvValues == {NumberLiteral(F32Int(1))}

EnvInit ==
    /\ environment = EnvironmentNew(<<>>)
    /\ call = None
    /\ stack = <<>> /\ raised = None /\ stdout = <<>> /\ stderr = <<>>
    /\ exit_code = None /\ executed = <<>>
    /\ command = None /\ scanner = None /\ parsed = None /\ panicked = FALSE

Call(op, name, value, result) ==
    [type |-> "Call", op |-> op, name |-> name, value |-> value,
     before |-> environment, result |-> result]

\* Environment::new(Some(Box::new(environment)))
EnvNew ==
    /\ Len(environment) < MaxScopes
    /\ environment' = EnvironmentNew(environment)
    /\ call' = Call("new", None, None, None)
    /\ UNCHANGED <<interpretVars, mainVars>>

\* environment.define(name, value)
EnvDefine ==
    /\ \E lexeme \in EnvNames, value \in EnvValues \cup {None} :
          /\ environment' = define(environment, lexeme, value)
          /\ call' = Call("define", lexeme, value, None)
    /\ UNCHANGED <<interpretVars, mainVars>>

\* environment.assign(name, value)
EnvAssign ==
    /\ \E lexeme \in EnvNames, line \in EnvLines, value \in EnvValues :
          LET r == assign(environment, Ident(lexeme, line), value)
          IN  /\ environment' = r.env
              /\ call' = Call("assign", Ident(lexeme, line), value,
                              IF r.ok THEN Ok(None) ELSE Err(r.error))
    /\ UNCHANGED <<interpretVars, mainVars>>

\* environment.get(name)
EnvGet ==
    /\ \E lexeme \in EnvNames, line \in EnvLines :
          call' = Call("get", Ident(lexeme, line), None,
                       get(environment, Ident(lexeme, line)))
    /\ UNCHANGED <<environment, interpretVars, mainVars>>

EnvNext ==
    \/ EnvNew
    \/ EnvDefine
    \/ EnvAssign
    \/ EnvGet

EnvSpec == EnvInit /\ [][EnvNext]_vars

\* The innermost scope of the chain that holds the name, 0 if none does.
Holder(env, lexeme) ==
    IF \E i \in 1..Len(env) : lexeme \in DOMAIN env[i]
    THEN CHOOSE i \in 1..Len(env) :
            /\ lexeme \in DOMAIN env[i]
            /\ \A j \in 1..(i - 1) : lexeme \notin DOMAIN env[j]
    ELSE 0

UndefinedVariableError(name, e) ==
    /\ e.token = name
    /\ e.message = "Undefined variable '" \o name.lexeme \o "'."

\* C6: Environment.assign never creates a binding: it overwrites the value
\* in the innermost scope that holds the name and nothing else; when no
\* scope holds the name it returns the undefined-variable error and the
\* chain is as it was.
C6_AssignNeverCreates ==
    (call # None /\ call.op = "assign") =>
        LET h == Holder(call.before, call.name.lexeme)
        IN  /\ ScopeNames(environment) = ScopeNames(call.before)
            /\ h # 0 =>
                  /\ call.result = Ok(None)
                  /\ environment[h][call.name.lexeme] = call.value
                  /\ \A i \in 1..Len(environment) : \A k \in DOMAIN environment[i] :
                        (i # h \/ k # call.name.lexeme) =>
                            environment[i][k] = call.before[i][k]
            /\ h = 0 =>
                  /\ ~call.result.ok
                  /\ UndefinedVariableError(call.name, call.result.error)
                  /\ environment = call.before

\* C6 witness: an assignment reached the middle scope of three, past an
\* innermost scope that holds another name, with the name also held by the
\* outermost scope; and an assignment failed on a chain of three scopes.
C6_Witness ==
    /\ call # None /\ call.op = "assign"
    /\ Len(call.before) = 3
    /\ Holder(call.before, call.name.lexeme) = 2
    /\ call.name.lexeme \in DOMAIN call.before[3]
    /\ DOMAIN call.before[1] # {}
    /\ environment # call.before

\* C7: Environment.get returns the binding of the innermost scope that
\* holds the name, an absent value included, and fails with the
\* undefined-variable error on the name's token exactly when no scope holds
\* the name.
C7_GetInnermost ==
    (call # None /\ call.op = "get") =>
        LET h == Holder(environment, call.name.lexeme)
        IN  /\ h # 0 => call.result = Ok(environment[h][call.name.lexeme])
            /\ h = 0 =>
                  /\ ~call.result.ok
                  /\ UndefinedVariableError(call.name, call.result.error)
            /\ call.result.ok <=> h # 0

\* C7 witness: get returned the absent value of an uninitialized binding in
\* the middle scope of three, shadowing a value in the outermost scope.
C7_Witness ==
    /\ call # None /\ call.op = "get"
    /\ Len(environment) = 3
    /\ Holder(environment, call.name.lexeme) = 2
    /\ call.result = Ok(None)
    /\ call.name.lexeme \in DOMAIN environment[3]
    /\ environment[3][call.name.lexeme] # None

(***************************************************************************)
(* scan.rs: Scanner.  The source is the list of its graphemes; start and   *)
(* current are the indices of the code, counted from 0, so that the code's *)
(* graphemes[i] is graphemes[i + 1] here.  A method that can panic returns *)
(* the panic in its result.                                                *)
(***************************************************************************)
Digits == <<"0", "1", "2", "3", "4", "5", "6", "7", "8", "9">>

Letters ==
    {"a", "b", "c", "d", "e", "f", "g", "h", "i", "j", "k", "l", "m",
     "n", "o", "p", "q", "r", "s", "t", "u", "v", "w", "x", "y", "z",
     "A", "B", "C", "D", "E", "F", "G", "H", "I", "J", "K", "L", "M",
     "N", "O", "P", "Q", "R", "S", "T", "U", "V", "W", "X", "Y", "Z"}

is_digit(grapheme) == \E i \in 1..Len(Digits) : Digits[i] = grapheme

is_alphabetic(grapheme) == grapheme \in Letters

\* lib.rs: KEYWORDS
KEYWORDS ==
    [and |-> "AND", class |-> "CLASS", else |-> "ELSE", false |-> "FALSE",
     fun |-> "FUN", for |-> "FOR", if |-> "IF", nil |-> "NIL", or |-> "OR",
     print |-> "PRINT", return |-> "RETURN", super |-> "SUPER", this |-> "THIS",
     true |-> "TRUE", var |-> "VAR", while |-> "WHILE"]

\* The "\0" that peek and peek_next return at the end of the input.
NUL == "\\0"

RECURSIVE Concat(_)
Concat(strings) ==
    IF strings = <<>> THEN "" ELSE Head(strings) \o Concat(Tail(strings))

\* str::parse::<f32> of digits with an optional fraction part.
DigitValue(grapheme) == (CHOOSE i \in 1..Len(Digits) : Digits[i] = grapheme) - 1

RECURSIVE ParseDigits(_, _)
ParseDigits(graphemes, acc) ==
    IF graphemes = <<>> THEN acc
    ELSE ParseDigits(Tail(graphemes), [n |-> 10 * acc.n + DigitValue(Head(graphemes)),
                                       d |-> 10 * acc.d])

ParseF32(graphemes) ==
    LET dots == { i \in 1..Len(graphemes) : graphemes[i] = "." }
    IN  IF dots = {}
        THEN F32(FALSE, ParseDigits(graphemes, [n |-> 0, d |-> 1]).n, 1)
        ELSE LET dot == CHOOSE i \in dots : TRUE
                 whole == ParseDigits(SubSeq(graphemes, 1, dot - 1), [n |-> 0, d |-> 1])
                 all == ParseDigits(SubSeq(graphemes, dot + 1, Len(graphemes)),
                                    [n |-> whole.n, d |-> 1])
             IN  F32(FALSE, all.n, all.d)

\* Scanner::new(source)
ScannerNew(graphemes) ==
    [graphemes |-> graphemes, tokens |-> <<>>, start |-> 0, current |-> 0,
     line |-> 1, has_error |-> FALSE]

is_at_end(s) == s.current >= Len(s.graphemes)

advance(s) == [s EXCEPT !.current = @ + 1]

peek(s) == IF is_at_end(s) THEN NUL ELSE s.graphemes[s.current + 1]

\* peek_next indexes graphemes[current + 1] whenever current < len.
PeekNextPanics(s) == ~is_at_end(s) /\ s.current + 1 >= Len(s.graphemes)

peek_next(s) == IF is_at_end(s) THEN NUL ELSE s.graphemes[s.current + 2]

match_next(s, expected) ==
    IF is_at_end(s) \/ peek(s) # expected
    THEN [matched |-> FALSE, scanner |-> s]
    ELSE [matched |-> TRUE, scanner |-> advance(s)]

add_literal_token(s, token_type, literal) ==
    [s EXCEPT !.tokens = Append(@, Token(token_type,
                                         Concat(SubSeq(s.graphemes, s.start + 1, s.current)),
                                         literal, s.line))]

add_token(s, token_type) == add_literal_token(s, token_type, None)

ScanOk(s) == [ok |-> TRUE, panic |-> FALSE, scanner |-> s]
ScanErr(s, e) == [ok |-> FALSE, panic |-> FALSE, scanner |-> s, error |-> e]
ScanPanic(s) == [ok |-> FALSE, panic |-> TRUE, scanner |-> s]

UnknownCharacter(c) == [type |-> "UnknownCharacter", c |-> c]
UnterminatedStringLiteral == [type |-> "UnterminatedStringLiteral"]

UnexpectedCharacterErrorDisplay(e) ==
    IF e.type = "UnknownCharacter" THEN "Unexpected character: " \o e.c
    ELSE "Unterminated string."

\* The loop of a `//` comment.
RECURSIVE SkipComment(_)
SkipComment(s) ==
    IF peek(s) # "\n" /\ ~is_at_end(s) THEN SkipComment(advance(s)) ELSE s

\* The loop of Scanner::string, with its local `lines`.
RECURSIVE StringLoop(_, _)
StringLoop(s, lines) ==
    IF peek(s) # "\"" /\ ~is_at_end(s)
    THEN IF peek(s) = "\n"
         THEN StringLoop(advance([s EXCEPT !.line = @ + lines + 1]), lines + 1)
         ELSE StringLoop(advance(s), lines)
    ELSE [scanner |-> s, lines |-> lines]

string(s) ==
    LET r == StringLoop(s, 0)
    IN  IF is_at_end(r.scanner)
        THEN ScanErr([r.scanner EXCEPT !.line = @ - r.lines], UnterminatedStringLiteral)
        ELSE LET closed == advance(r.scanner)
                 value == Concat(SubSeq(closed.graphemes, closed.start + 2,
                                        closed.current - 1))
             IN  ScanOk(add_literal_token(closed, "STRING", StringLiteral(value)))

RECURSIVE DigitLoop(_)
DigitLoop(s) == IF is_digit(peek(s)) THEN DigitLoop(advance(s)) ELSE s

number(s) ==
    LET whole == DigitLoop(s)
    IN  IF peek(whole) = "." /\ PeekNextPanics(whole) THEN ScanPanic(whole)
        ELSE LET all == IF peek(whole) = "." /\ is_digit(peek_next(whole))
                        THEN DigitLoop(advance(whole)) ELSE whole
                 value_str == SubSeq(all.graphemes, all.start + 1, all.current)
             IN  ScanOk(add_literal_token(all, "NUMBER", NumberLiteral(ParseF32(value_str))))

RECURSIVE IdentifierLoop(_)
IdentifierLoop(s) ==
    IF is_alphabetic(peek(s)) \/ is_digit(peek(s)) \/ peek(s) = "_"
    THEN IdentifierLoop(advance(s)) ELSE s

identifier(s) ==
    LET all == IdentifierLoop(s)
        value_str == Concat(SubSeq(all.graphemes, all.start + 1, all.current))
    IN  IF value_str \in DOMAIN KEYWORDS
        THEN ScanOk(add_token(all, KEYWORDS[value_str]))
        ELSE ScanOk(add_token(all, "IDENTIFIER"))

SingleCharacterTokens ==
    [c \in {"(", ")", "{", "}", ",", ".", "-", "+", ";", "*"} |->
        CASE c = "(" -> "LEFT_PAREN" [] c = ")" -> "RIGHT_PAREN"
          [] c = "{" -> "LEFT_BRACE" [] c = "}" -> "RIGHT_BRACE"
          [] c = "," -> "COMMA" [] c = "." -> "DOT"
          [] c = "-" -> "MINUS" [] c = "+" -> "PLUS"
          [] c = ";" -> "SEMICOLON" [] c = "*" -> "STAR"]

\* The operators that a following "=" turns into a two-character token.
OperatorTokens ==
    [c \in {"!", "=", "<", ">"} |->
        CASE c = "!" -> <<"BANG", "BANG_EQUAL">>
          [] c = "=" -> <<"EQUAL", "EQUAL_EQUAL">>
          [] c = "<" -> <<"LESS", "LESS_EQUAL">>
          [] c = ">" -> <<"GREATER", "GREATER_EQUAL">>]

scan_token(s0) ==
    LET c == s0.graphemes[s0.current + 1]
        s == advance(s0)
    IN  IF c \in DOMAIN SingleCharacterTokens
        THEN ScanOk(add_token(s, SingleCharacterTokens[c]))
        ELSE IF c \in DOMAIN OperatorTokens
        THEN LET m == match_next(s, "=")
             IN  ScanOk(add_token(m.scanner, OperatorTokens[c][IF m.matched THEN 2 ELSE 1]))
        ELSE IF c = "/"
        THEN LET m == match_next(s, "/")
             IN  IF m.matched THEN ScanOk(SkipComment(m.scanner))
                 ELSE ScanOk(add_token(s, "SLASH"))
        ELSE IF c = "\"" THEN string(s)
        ELSE IF is_digit(c) THEN number(s)
        ELSE IF c = "\n" THEN ScanOk([s EXCEPT !.line = @ + 1])
        ELSE IF c \in {" ", "\r", "\t"} THEN ScanOk(s)
        ELSE IF is_alphabetic(c) \/ c = "_" THEN identifier(s)
        ELSE ScanErr(s, UnknownCharacter(c))

\* lib.rs: report(line, location, message)
report(line, location, message) ==
    "[line " \o ToString(line) \o "] Error" \o location \o ": " \o message

\* Mutant: a pass that meets no error clears the failure flag.
ScanTokensStep_Reset(s) ==
    LET r == scan_token([s EXCEPT !.start = s.current])
    IN  IF r.panic THEN r
        ELSE [r EXCEPT !.scanner = [@ EXCEPT !.has_error = ~r.ok]]

\* One pass of the loop of scan_tokens.
ScanTokensStep(s) ==
    LET r == scan_token([s EXCEPT !.start = s.current])
    IN  IF r.ok \/ r.panic THEN r
        ELSE [r EXCEPT !.scanner = [@ EXCEPT !.has_error = TRUE]]

\* scan_tokens once its loop has ended.
ScanTokensEnd(s) == [s EXCEPT !.tokens = Append(@, Token("EOF", "", None, s.line))]

\* impl Display for Token
TokenDisplay(t) ==
    t.token_type \o " " \o t.lexeme \o " "
    \o (IF t.literal # None THEN print_value(t.literal) ELSE "null")

(***************************************************************************)
(* parse.rs: Parser.  Every method takes the token list and the cursor     *)
(* `current` (counted from 0 as in the code) and returns its Result with   *)
(* the cursor as the call leaves it.                                       *)
(***************************************************************************)
ParserError(type, token) == [type |-> type, token |-> token]

\* impl Display for ParserError
ParserErrorDisplay(e) ==
    LET what == CASE e.type = "UndisclosedDelimiter" -> "Undisclosed delimiter"
                  [] e.type = "ExpectExpression" -> "Expected expression"
                  [] e.type = "UnexpectedToken" -> "Unexpected token"
                  [] e.type = "NoSemicolon" -> "Missing semicolon"
                  [] e.type = "InvalidAssignmentTarget" -> "Invalid assignment target"
    IN  IF e.token.token_type = "EOF" THEN "at end: " \o what
        ELSE IF e.type = "NoSemicolon"
        THEN "Missing semicolon after " \o TokenDisplay(e.token)
        ELSE "at " \o TokenDisplay(e.token) \o ": " \o what

ParseOk(value, current) == [ok |-> TRUE, value |-> value, current |-> current]
ParseErr(error, current) == [ok |-> FALSE, error |-> error, current |-> current]

ParserPeek(tokens, current) == tokens[current + 1]
ParserPrevious(tokens, current) == tokens[current]
ParserIsAtEnd(tokens, current) == ParserPeek(tokens, current).token_type = "EOF"

check(tokens, current, token_type) ==
    ~ParserIsAtEnd(tokens, current) /\ ParserPeek(tokens, current).token_type = token_type

\* The cursor after Parser::advance.
ParserAdvance(tokens, current) ==
    IF ~ParserIsAtEnd(tokens, current) THEN current + 1 ELSE current

\* match_tokens(types): whether a type matched; the cursor then moves by one.
match_tokens(tokens, current, types) == \E t \in types : check(tokens, current, t)

consume(tokens, current, token_type) ==
    IF check(tokens, current, token_type)
    THEN ParseOk(ParserPeek(tokens, current), ParserAdvance(tokens, current))
    ELSE IF token_type = "SEMICOLON"
    THEN ParseErr(ParserError("NoSemicolon", ParserPeek(tokens, current)), current)
    ELSE ParseErr(ParserError("UndisclosedDelimiter", ParserPeek(tokens, current)), current)

\* The `?` on an operand: the operand's error, or the value built from it.
BinaryResult(left, operator, right) ==
    IF ~right.ok THEN right
    ELSE ParseOk(BinaryExpr(left, operator, right.value), right.current)

UnaryResult(operator, right) ==
    IF ~right.ok THEN right ELSE ParseOk(UnaryExpr(operator, right.value), right.current)

\* consume(token_type) after a call that returned r, whose error goes first.
ConsumeAfter(tokens, r, token_type) ==
    IF ~r.ok THEN r
    ELSE IF check(tokens, r.current, token_type)
    THEN ParseOk(r.value, ParserAdvance(tokens, r.current))
    ELSE consume(tokens, r.current, token_type)

RECURSIVE assignment(_, _), AssignmentFrom(_, _), equality(_, _), EqualityFrom(_, _),
          comparison(_, _), ComparisonFrom(_, _), term(_, _), TermFrom(_, _),
          factor(_, _), FactorFrom(_, _), unary(_, _), primary(_, _), PrimaryRest(_, _)

expression(tokens, current) == assignment(tokens, current)

\* Mutant: any target is accepted; one that is no variable is dropped.
AssignmentResult_AnyTarget(expr, equals, value) ==
    IF ~value.ok THEN value
    ELSE IF expr.value.type = "Variable"
    THEN ParseOk(AssignExpr(expr.value.name, value.value), value.current)
    ELSE value

\* assignment, once the value after `=` has been parsed.
AssignmentResult(expr, equals, value) ==
    IF ~value.ok THEN value
    ELSE IF expr.value.type = "Variable"
    THEN ParseOk(AssignExpr(expr.value.name, value.value), value.current)
    ELSE ParseErr(ParserError("InvalidAssignmentTarget", equals), value.current)

\* assignment, from the result of its call of equality on.
AssignmentFrom(tokens, expr) ==
    IF ~expr.ok THEN expr
    ELSE IF match_tokens(tokens, expr.current, {"EQUAL"})
    THEN AssignmentResult(expr, ParserPeek(tokens, expr.current),
                          assignment(tokens, expr.current + 1))
    ELSE expr

assignment(tokens, current) == AssignmentFrom(tokens, equality(tokens, current))

\* The loop of equality: expr is the result of the operand parsed last.
EqualityFrom(tokens, expr) ==
    IF ~expr.ok THEN expr
    ELSE IF match_tokens(tokens, expr.current, {"BANG_EQUAL", "EQUAL_EQUAL"})
    THEN EqualityFrom(tokens, BinaryResult(expr.value, ParserPeek(tokens, expr.current),
                                           comparison(tokens, expr.current + 1)))
    ELSE expr

equality(tokens, current) == EqualityFrom(tokens, comparison(tokens, current))

ComparisonFrom(tokens, expr) ==
    IF ~expr.ok THEN expr
    ELSE IF match_tokens(tokens, expr.current,
                         {"GREATER", "GREATER_EQUAL", "LESS", "LESS_EQUAL"})
    THEN ComparisonFrom(tokens, BinaryResult(expr.value, ParserPeek(tokens, expr.current),
                                             term(tokens, expr.current + 1)))
    ELSE expr

comparison(tokens, current) == ComparisonFrom(tokens, term(tokens, current))

\* Mutant: `+` and `-` take the whole rest of the term as their right operand.
TermFrom_RightAssoc(tokens, expr) ==
    IF ~expr.ok THEN expr
    ELSE IF match_tokens(tokens, expr.current, {"MINUS", "PLUS"})
    THEN BinaryResult(expr.value, ParserPeek(tokens, expr.current),
                      term(tokens, expr.current + 1))
    ELSE expr

TermFrom(tokens, expr) ==
    IF ~expr.ok THEN expr
    ELSE IF match_tokens(tokens, expr.current, {"MINUS", "PLUS"})
    THEN TermFrom(tokens, BinaryResult(expr.value, ParserPeek(tokens, expr.current),
                                       factor(tokens, expr.current + 1)))
    ELSE expr

term(tokens, current) == TermFrom(tokens, factor(tokens, current))

FactorFrom(tokens, expr) ==
    IF ~expr.ok THEN expr
    ELSE IF match_tokens(tokens, expr.current, {"SLASH", "STAR"})
    THEN FactorFrom(tokens, BinaryResult(expr.value, ParserPeek(tokens, expr.current),
                                         unary(tokens, expr.current + 1)))
    ELSE expr

factor(tokens, current) == FactorFrom(tokens, unary(tokens, current))

unary(tokens, current) ==
    IF match_tokens(tokens, current, {"BANG", "MINUS"})
    THEN UnaryResult(ParserPeek(tokens, current), unary(tokens, current + 1))
    ELSE primary(tokens, current)

GroupingResult(closed) ==
    IF ~closed.ok THEN closed ELSE ParseOk(GroupingExpr(closed.value), closed.current)

\* primary, from its match on Identifier on.
PrimaryRest(tokens, current) ==
    IF match_tokens(tokens, current, {"IDENTIFIER"})
    THEN ParseOk(VariableExpr(ParserPeek(tokens, current)), current + 1)
    ELSE IF match_tokens(tokens, current, {"LEFT_PAREN"})
    THEN GroupingResult(ConsumeAfter(tokens, assignment(tokens, current + 1), "RIGHT_PAREN"))
    ELSE ParseErr(ParserError("UnexpectedToken", ParserPeek(tokens, current)), current)

primary(tokens, current) ==
    IF match_tokens(tokens, current, {"FALSE"})
    THEN ParseOk(LiteralExpr(BooleanLiteral(FALSE)), current + 1)
    ELSE IF match_tokens(tokens, current, {"TRUE"})
    THEN ParseOk(LiteralExpr(BooleanLiteral(TRUE)), current + 1)
    ELSE IF match_tokens(tokens, current, {"NIL"})
    THEN ParseOk(LiteralExpr(NilLiteral), current + 1)
    ELSE IF match_tokens(tokens, current, {"NUMBER", "STRING"})
            /\ ParserPeek(tokens, current).literal # None
    THEN ParseOk(LiteralExpr(ParserPeek(tokens, current).literal), current + 1)
    ELSE PrimaryRest(tokens, IF match_tokens(tokens, current, {"NUMBER", "STRING"})
                             THEN current + 1 ELSE current)

\* The Result of a parse with the line it writes to standard error.
Reported(r) ==
    IF r.ok THEN [ok |-> TRUE, value |-> r.value, err |-> <<>>]
    ELSE [ok |-> FALSE, error |-> r.error,
          err |-> <<"Error: " \o ParserErrorDisplay(r.error)>>]

\* Parser::parse_single_expr
parse_single_expr(tokens) == Reported(expression(tokens, 0))

\* The loop of synchronize, after its first advance.
RECURSIVE SynchronizeLoop(_, _)
SynchronizeLoop(tokens, current) ==
    IF ParserIsAtEnd(tokens, current) THEN current
    ELSE IF ParserPrevious(tokens, current).token_type = "SEMICOLON" THEN current
    ELSE IF ParserPeek(tokens, current).token_type
            \in {"CLASS", "FUN", "VAR", "FOR", "IF", "WHILE", "PRINT", "RETURN"}
    THEN current
    ELSE SynchronizeLoop(tokens, ParserAdvance(tokens, current))

synchronize(tokens, current) == SynchronizeLoop(tokens, ParserAdvance(tokens, current))

PrintResult(r) == IF ~r.ok THEN r ELSE ParseOk(PrintStmt(r.value), r.current)

print_statement(tokens, current) ==
    PrintResult(ConsumeAfter(tokens, expression(tokens, current), "SEMICOLON"))

ExpressionResult(r) == IF ~r.ok THEN r ELSE ParseOk(ExpressionStmt(r.value), r.current)

expression_statement(tokens, current) ==
    ExpressionResult(ConsumeAfter(tokens, expression(tokens, current), "SEMICOLON"))

VarResult(name, r) == IF ~r.ok THEN r ELSE ParseOk(VarStmt(name, r.value), r.current)

\* var_declaration, from the result of its consume(Identifier) on.
VarDeclarationFrom(tokens, t) ==
    IF ~t.ok THEN t
    ELSE VarResult(t.value,
                   ConsumeAfter(tokens,
                                IF match_tokens(tokens, t.current, {"EQUAL"})
                                THEN expression(tokens, t.current + 1)
                                ELSE ParseOk(None, t.current),
                                "SEMICOLON"))

var_declaration(tokens, current) ==
    VarDeclarationFrom(tokens, consume(tokens, current, "IDENTIFIER"))

\* statements.push(stmt) on the result of declaration(), or its error.
PushResult(statements, stmt) ==
    IF ~stmt.ok THEN stmt ELSE ParseOk(Append(statements, stmt.value), stmt.current)

RECURSIVE declaration(_, _), statement(_, _), block(_, _), BlockLoop(_, _)

\* The loop of Parser::block: stmts is the result of the pushes made so far.
BlockLoop(tokens, stmts) ==
    IF ~stmts.ok THEN stmts
    ELSE IF ~check(tokens, stmts.current, "RIGHT_BRACE")
            /\ ~ParserIsAtEnd(tokens, stmts.current)
    THEN BlockLoop(tokens, PushResult(stmts.value, declaration(tokens, stmts.current)))
    ELSE stmts

BlockResult(r) == IF ~r.ok THEN r ELSE ParseOk(BlockStmt(r.value), r.current)

block(tokens, current) ==
    BlockResult(ConsumeAfter(tokens, BlockLoop(tokens, ParseOk(<<>>, current)),
                             "RIGHT_BRACE"))

statement(tokens, current) ==
    IF match_tokens(tokens, current, {"PRINT"}) THEN print_statement(tokens, current + 1)
    ELSE IF match_tokens(tokens, current, {"LEFT_BRACE"}) THEN block(tokens, current + 1)
    ELSE expression_statement(tokens, current)

\* Mutant: after synchronize the cursor steps over one more token.
Synchronized_Skip(tokens, stmt) ==
    IF stmt.ok THEN stmt ELSE ParseErr(stmt.error, synchronize(tokens, stmt.current) + 1)

\* declaration's match on the result of statement().
Synchronized(tokens, stmt) ==
    IF stmt.ok THEN stmt ELSE ParseErr(stmt.error, synchronize(tokens, stmt.current))

declaration(tokens, current) ==
    IF match_tokens(tokens, current, {"VAR"}) THEN var_declaration(tokens, current + 1)
    ELSE Synchronized(tokens, statement(tokens, current))

\* The loop of Parser::parse.
RECURSIVE ParseLoop(_, _)
ParseLoop(tokens, statements) ==
    IF ~statements.ok THEN statements
    ELSE IF ~ParserIsAtEnd(tokens, statements.current)
    THEN ParseLoop(tokens, PushResult(statements.value,
                                      declaration(tokens, statements.current)))
    ELSE statements

\* Parser::parse
parse(tokens) == Reported(ParseLoop(tokens, ParseOk(<<>>, 0)))

(***************************************************************************)
(* expression.rs, interpret.rs, ast.rs: the rendering of an expression and *)
(* the evaluation of a single expression.                                  *)
(***************************************************************************)
RECURSIVE accept(_), parenthesize(_, _)

parenthesize(name, expressions) ==
    "(" \o name
    \o Concat([i \in 1..Len(expressions) |-> " " \o accept(expressions[i])])
    \o ")"

accept(expr) ==
    CASE expr.type = "Literal" -> print_value(expr.value)
      [] expr.type = "Variable" -> TokenDisplay(expr.name)
      [] expr.type = "Assign" -> expr.name.lexeme \o " = " \o accept(expr.value)
      [] expr.type = "Grouping" -> parenthesize("group", <<expr.expression>>)
      [] expr.type = "Unary" -> parenthesize(expr.operator.lexeme, <<expr.right>>)
      [] expr.type = "Binary" ->
            parenthesize(expr.operator.lexeme, <<expr.left, expr.right>>)

interpret_single_expr(expr, env) ==
    LET v == Evaluate(expr, env)
    IN  IF v.ok
        THEN StmtOk(v.env, IF v.value # None THEN <<PrintedText(v.value)>> ELSE <<>>, <<>>)
        ELSE StmtErr(v.error, v.env, <<>>, <<"Error: " \o RuntimeErrorDisplay(v.error)>>)

(***************************************************************************)
(* main.rs: the process, from the read of the source file to its exit.     *)
(***************************************************************************)
Commands == {"tokenize", "parse", "evaluate", "run"}

\* The graphemes the source files are made of.
Alphabet == {"1", ".", "(", "a", ";", "{", "}", "@"}

Sources == UNION { [1..n -> Alphabet] : n \in 0..MaxSource }

MainInit ==
    /\ command \in Commands
    /\ \E file_contents \in Sources : scanner = ScannerNew(file_contents)
    /\ parsed = None
    /\ panicked = FALSE
    /\ stack = <<>> /\ raised = None /\ stdout = <<>> /\ stderr = <<>>
    /\ exit_code = None /\ executed = <<>>
    /\ environment = <<>> /\ call = None

\* scan_tokens has pushed its Eof token.
Scanned ==
    /\ scanner # None
    /\ scanner.tokens # <<>>
    /\ scanner.tokens[Len(scanner.tokens)].token_type = "EOF"

\* The exit status of a process that a panic has ended.
Panic == ExitCode(101)

\* One pass of the loop of scan_tokens.
ScanToken ==
    /\ scanner # None /\ exit_code = None
    /\ ~Scanned
    /\ ~is_at_end(scanner)
    /\ LET r == ScanTokensStep(scanner)
       IN  /\ scanner' = r.scanner
           /\ panicked' = r.panic
           /\ exit_code' = IF r.panic THEN Panic ELSE None
           /\ stderr' =
                IF r.panic
                THEN Append(stderr, "thread 'main' panicked: index out of bounds: the len is "
                                    \o ToString(Len(scanner.graphemes)) \o " but the index is "
                                    \o ToString(r.scanner.current + 1))
                ELSE IF r.ok THEN stderr
                ELSE Append(stderr, report(r.scanner.line, "",
                                           UnexpectedCharacterErrorDisplay(r.error)))
    /\ UNCHANGED <<stack, raised, stdout, executed, command, parsed, envVars>>

\* The end of scan_tokens.
ScanEof ==
    /\ scanner # None /\ exit_code = None
    /\ ~Scanned
    /\ is_at_end(scanner)
    /\ scanner' = ScanTokensEnd(scanner)
    /\ UNCHANGED <<interpretVars, command, parsed, panicked, envVars>>

AtCommand(c) == command = c /\ Scanned /\ parsed = None /\ exit_code = None

\* impl Display for Scanner, written by println!
ScannerDisplay(s) == [i \in 1..Len(s.tokens) |-> TokenDisplay(s.tokens[i])] \o <<"">>

\* The "tokenize" arm of main.
MainTokenize ==
    /\ AtCommand("tokenize")
    /\ stdout' = stdout \o ScannerDisplay(scanner)
    /\ exit_code' = IF scanner.has_error THEN ExitCode(65) ELSE ExitCode(0)
    /\ UNCHANGED <<stack, raised, stderr, executed, mainVars, envVars>>

\* The "parse" arm of main.
MainParse ==
    /\ AtCommand("parse")
    /\ IF scanner.has_error
       THEN /\ exit_code' = ExitCode(65)
            /\ UNCHANGED <<stdout, stderr, parsed>>
       ELSE LET r == parse_single_expr(scanner.tokens)
            IN  /\ parsed' = r
                /\ stdout' = IF r.ok THEN Append(stdout, accept(r.value)) ELSE stdout
                /\ stderr' = IF r.ok THEN stderr ELSE stderr \o r.err \o <<"Damn.">>
                /\ exit_code' = IF r.ok THEN ExitCode(0) ELSE ExitCode(65)
    /\ UNCHANGED <<stack, raised, executed, command, scanner, panicked, envVars>>

\* The "evaluate" arm of main.
MainEvaluate ==
    /\ AtCommand("evaluate")
    /\ IF scanner.has_error
       THEN /\ exit_code' = ExitCode(65)
            /\ UNCHANGED <<stdout, stderr, parsed, raised>>
       ELSE LET r == parse_single_expr(scanner.tokens)
            IN  /\ parsed' = r
                /\ IF r.ok
                   THEN LET v == interpret_single_expr(r.value, EnvironmentNew(<<>>))
                        IN  /\ stdout' = stdout \o v.out
                            /\ stderr' = stderr \o v.err
                            /\ raised' = IF v.ok THEN None ELSE v.error
                            /\ exit_code' = IF v.ok THEN ExitCode(0) ELSE ExitCode(70)
                   ELSE /\ stderr' = stderr \o r.err
                        /\ exit_code' = ExitCode(70)
                        /\ UNCHANGED <<stdout, raised>>
    /\ UNCHANGED <<stack, executed, command, scanner, panicked, envVars>>

\* Mutant: the run arm parses and runs the tokens of a scan that has failed.
MainRun_IgnoreLexical ==
    /\ AtCommand("run")
    /\ LET r == parse(scanner.tokens)
       IN  /\ parsed' = r
           /\ stderr' = stderr \o r.err
           /\ exit_code' = IF r.ok THEN None ELSE ExitCode(65)
           /\ stack' = IF r.ok THEN <<Frame(r.value, EnvironmentNew(<<>>), <<>>)>>
                       ELSE stack
    /\ UNCHANGED <<raised, stdout, executed, command, scanner, panicked, envVars>>

\* The "run" arm of main, up to Interpreter::new(stmts).
MainRun ==
    /\ AtCommand("run")
    /\ IF scanner.has_error
       THEN /\ exit_code' = ExitCode(65)
            /\ UNCHANGED <<stack, stderr, parsed>>
       ELSE LET r == parse(scanner.tokens)
            IN  /\ parsed' = r
                /\ stderr' = stderr \o r.err
                /\ exit_code' = IF r.ok THEN None ELSE ExitCode(65)
                /\ stack' = IF r.ok THEN <<Frame(r.value, EnvironmentNew(<<>>), <<>>)>>
                            ELSE stack
    /\ UNCHANGED <<raised, stdout, executed, command, scanner, panicked, envVars>>

MainNext ==
    \/ ScanToken
    \/ ScanEof
    \/ MainTokenize
    \/ MainParse
    \/ MainEvaluate
    \/ MainRun
    \/ StatementEvaluate
    \/ BlockEnter
    \/ BlockExit
    \/ BlockErr
    \/ InterpretOk
    \/ InterpretErr

MainSpec == MainInit /\ [][MainNext]_vars

\* C8 (as claimed): no source makes scanning, parsing or evaluation end in a
\* panic; every stage ends with a result or an error value.
C8_NoUncontrolledAbort == ~panicked

LexicalError == scanner # None /\ scanner.has_error
SyntaxError == parsed # None /\ ~parsed.ok

\* C9 (as claimed): a process that main returns from exits with 0 when no
\* stage has failed, with 65 when the scanner or the parser has reported an
\* error, and with 70 exactly when a runtime error has occurred.
C9_ExitStatus ==
    (exit_code # None /\ ~panicked) =>
        /\ (~LexicalError /\ ~SyntaxError /\ raised = None) => exit_code = ExitCode(0)
        /\ (LexicalError \/ SyntaxError) => exit_code = ExitCode(65)
        /\ exit_code = ExitCode(70) <=> raised # None

\* C11: in the run command, once the scanner has recorded a lexical error
\* or the parser has returned a syntax error, no statement is ever executed
\* and nothing is written to standard output, and the parser's result holds
\* the error alone, none of the statements parsed before it.
C11_NoRunAfterError ==
    (command = "run" /\ (LexicalError \/ SyntaxError)) =>
        /\ executed = <<>>
        /\ stack = <<>>
        /\ stdout = <<>>
        /\ SyntaxError => DOMAIN parsed = {"ok", "error", "err"}

\* C11 witness: a run has exited with 65 on a syntax error that follows a
\* complete expression statement (`1;` and then at least one more token).
C11_Witness ==
    /\ command = "run"
    /\ SyntaxError
    /\ exit_code = ExitCode(65)
    /\ Len(scanner.tokens) >= 4
    /\ scanner.tokens[1].token_type = "NUMBER"
    /\ scanner.tokens[2].token_type = "SEMICOLON"

(***************************************************************************)
(* EvalSpec: UnaryExpr::evaluate and BinaryExpr::evaluate taken alone.     *)
(* The environment is the one `var u; var n = 1;` leaves: u is declared    *)
(* and holds no value, n holds a Number, and x is not declared.  Each      *)
(* behaviour evaluates one operator, or one assignment, over operands      *)
(* drawn from EvalOperands and records the expression and its result in    *)
(* `call`.                                                                 *)
(***************************************************************************)
EvalValues ==
    {NumberLiteral(F32Int(0)), NumberLiteral(F32Int(1)), NumberLiteral(F32Int(2)),
     StringLiteral(""), StringLiteral("a"), StringLiteral("b"),
     StringLiteral("1.0"), StringLiteral("true"), StringLiteral("nil"),
     BooleanLiteral(TRUE), BooleanLiteral(FALSE), NilLiteral}

EvalVariables == {"u", "n", "x"}

EvalOperands ==
    {LiteralExpr(v) : v \in EvalValues}
        \cup {VariableExpr(Ident(name, 1)) : name \in EvalVariables}

UnaryOperators == {Token("MINUS", "-", None, 1), Token("BANG", "!", None, 1)}

BinaryOperators ==
    {Token("MINUS", "-", None, 1), Token("STAR", "*", None, 1),
     Token("SLASH", "/", None, 1), Token("PLUS", "+", None, 1),
     Token("GREATER", ">", None, 1), Token("GREATER_EQUAL", ">=", None, 1),
     Token("LESS", "<", None, 1), Token("LESS_EQUAL", "<=", None, 1),
     Token("BANG_EQUAL", "!=", None, 1), Token("EQUAL_EQUAL", "==", None, 1)}

EvalInit ==
    /\ environment = define(define(EnvironmentNew(<<>>), "u", None),
                            "n", NumberLiteral(F32Int(1)))
    /\ call = None
    /\ stack = <<>> /\ raised = None /\ stdout = <<>> /\ stderr = <<>>
    /\ exit_code = None /\ executed = <<>>
    /\ command = None /\ scanner = None /\ parsed = None /\ panicked = FALSE

Eval(expr) == [type |-> "Eval", expr |-> expr, result |-> Evaluate(expr, environment)]

\* UnaryExpr::evaluate
EvalUnary ==
    /\ call = None
    /\ \E operator \in UnaryOperators, right \in EvalOperands :
          call' = Eval(UnaryExpr(operator, right))
    /\ UNCHANGED <<environment, interpretVars, mainVars>>

\* BinaryExpr::evaluate
EvalBinary ==
    /\ call = None
    /\ \E operator \in BinaryOperators, left \in EvalOperands, right \in EvalOperands :
          call' = Eval(BinaryExpr(left, operator, right))
    /\ UNCHANGED <<environment, interpretVars, mainVars>>

\* AssignExpr::evaluate
EvalAssign ==
    /\ call = None
    /\ \E name \in EvalVariables, value \in EvalOperands :
          /\ call' = Eval(AssignExpr(Ident(name, 1), value))
          /\ environment' = Evaluate(AssignExpr(Ident(name, 1), value), environment).env
    /\ UNCHANGED <<interpretVars, mainVars>>

EvalNext ==
    \/ EvalUnary
    \/ EvalBinary
    \/ EvalAssign

EvalSpec == EvalInit /\ [][EvalNext]_vars

\* The last call evaluated a unary / binary operator whose operands are
\* literal values.
UnaryOnValue ==
    /\ call # None /\ call.type = "Eval" /\ call.expr.type = "Unary"
    /\ call.expr.right.type = "Literal"

BinaryOnValues ==
    /\ call # None /\ call.type = "Eval" /\ call.expr.type = "Binary"
    /\ call.expr.left.type = "Literal"
    /\ call.expr.right.type = "Literal"

OperatorIn(types) == call.expr.operator.token_type \in types

FailsWith(message) ==
    /\ ~call.result.ok
    /\ call.result.error = RuntimeError(call.expr.operator, message)

Yields(value) == call.result.ok /\ call.result.value = value

\* C12: `l == r` is true exactly when l and r have the same tag and are the
\* same value, and `l != r` is its negation; in particular two values of
\* different tags are never equal, whatever their printed text.
C12_TagsNeverEqual ==
    (BinaryOnValues /\ OperatorIn({"EQUAL_EQUAL", "BANG_EQUAL"})) =>
        LET l == call.expr.left.value
            r == call.expr.right.value
            same == l.type = r.type /\ l = r
        IN  Yields(BooleanLiteral(OperatorIn({"EQUAL_EQUAL"}) <=> same))

NumericOperators ==
    {"MINUS", "STAR", "SLASH", "GREATER", "GREATER_EQUAL", "LESS", "LESS_EQUAL"}

BothAre(tag) ==
    call.expr.left.value.type = tag /\ call.expr.right.value.type = tag

\* C13: each of - * / > >= < <= succeeds when both operands are Numbers, and
\* for every other pair of operand values fails with the runtime error
\* "Operands must be numbers.".
C13_NumericOperands ==
    (BinaryOnValues /\ OperatorIn(NumericOperators)) =>
        IF BothAre("NumberLiteral") THEN call.result.ok
        ELSE FailsWith("Operands must be numbers.")

\* C14: `+` yields the sum of two Numbers, the concatenation, left operand
\* first, of two Strings, and for every other pair of operand values fails
\* with the runtime error "Operands must be numbers or strings.".
C14_PlusRule ==
    (BinaryOnValues /\ OperatorIn({"PLUS"})) =>
        LET l == call.expr.left.value
            r == call.expr.right.value
        IN  CASE BothAre("NumberLiteral") ->
                    Yields(NumberLiteral(F32Add(l.value, r.value)))
              [] BothAre("StringLiteral") ->
                    Yields(StringLiteral(l.value \o r.value))
              [] OTHER -> FailsWith("Operands must be numbers or strings.")

\* C14 witness: the mixed pair `1 + "a"` has been evaluated and has failed
C14_Witness ==
    /\ BinaryOnValues /\ OperatorIn({"PLUS"})
    /\ call.expr.left.value = NumberLiteral(F32Int(1))
    /\ call.expr.right.value = StringLiteral("a")
    /\ FailsWith("Operands must be numbers or strings.")

\* C15: `!v` is the Boolean true exactly when v is Nil or the Boolean false,
\* and the Boolean false for every other value, the number 0 and the empty
\* string included.
C15_BangTruthiness ==
    (UnaryOnValue /\ OperatorIn({"BANG"})) =>
        Yields(BooleanLiteral(call.expr.right.value \in {NilLiteral, BooleanLiteral(FALSE)}))

\* C15 witness: `!0` has evaluated to false.
C15_Witness ==
    /\ UnaryOnValue /\ OperatorIn({"BANG"})
    /\ call.expr.right.value = NumberLiteral(F32Int(0))
    /\ Yields(BooleanLiteral(FALSE))

DocumentedMessages ==
    {"Undefined variable '" \o name \o "'." : name \in EvalVariables}
        \cup {"Operand must be a number.", "Operands must be numbers.",
              "Operands must be numbers or strings."}

\* C16: every runtime error an evaluation raises is of a documented kind:
\* undefined variable, operand must be a number, operands must be numbers,
\* operands must be numbers or strings; also when an operand is a variable
\* that is declared and holds no value.
C16_DocumentedErrors ==
    (call # None /\ call.type = "Eval" /\ ~call.result.ok) =>
        call.result.error.message \in DocumentedMessages

(***************************************************************************)
(* ScanSpec: Scanner::scan_tokens taken alone, one pass of its loop per    *)
(* step, over every source of at most MaxSource graphemes of ScanAlphabet: *)
(* the quote, the newline, an unknown character, a digit, the dot and a    *)
(* letter.                                                                 *)
(***************************************************************************)
ScanAlphabet == {"\"", "\n", "@", "1", ".", "a"}

ScanSources == UNION { [1..n -> ScanAlphabet] : n \in 0..MaxSource }

ScanInit ==
    /\ \E source \in ScanSources : scanner = ScannerNew(source)
    /\ command = None /\ parsed = None /\ panicked = FALSE
    /\ stack = <<>> /\ raised = None /\ stdout = <<>> /\ stderr = <<>>
    /\ exit_code = None /\ executed = <<>>
    /\ environment = <<>> /\ call = None

ScanNext ==
    \/ ScanToken
    \/ ScanEof

ScanSpec == ScanInit /\ [][ScanNext]_vars

\* The number of newlines among the first n graphemes.
Newlines(graphemes, n) == Cardinality({i \in 1..n : graphemes[i] = "\n"})

\* The number of graphemes from the start of the source to the end of the
\* i-th token, in a source whose scan has met no error: between two tokens
\* such a source holds newlines only.
RECURSIVE SkipNewlines(_, _)
SkipNewlines(graphemes, n) ==
    IF n < Len(graphemes) /\ graphemes[n + 1] = "\n"
    THEN SkipNewlines(graphemes, n + 1) ELSE n

RECURSIVE TokenEnd(_, _, _)
TokenEnd(graphemes, tokens, i) ==
    IF i = 0 THEN 0
    ELSE SkipNewlines(graphemes, TokenEnd(graphemes, tokens, i - 1)) + Len(tokens[i].lexeme)

\* C17: in a source without lexical errors every token's line is 1 plus the
\* number of newlines before the end of that token, newlines inside string
\* literals included, and the line of the EOF token is 1 plus the number of
\* newlines of the whole source.
C17_LineCountsNewlines ==
    (Scanned /\ ~scanner.has_error) =>
        \A i \in 1..Len(scanner.tokens) :
            scanner.tokens[i].line =
                1 + Newlines(scanner.graphemes,
                             TokenEnd(scanner.graphemes, scanner.tokens, i))

\* The scanner is about to scan a string literal that has no closing quote.
AtUnterminatedString ==
    /\ scanner # None /\ exit_code = None /\ ~Scanned /\ ~is_at_end(scanner)
    /\ scanner.graphemes[scanner.current + 1] = "\""
    /\ \A i \in (scanner.current + 2)..Len(scanner.graphemes) : scanner.graphemes[i] # "\""

\* C18: the pass that scans an unterminated string literal reports
\* "Unterminated string." with the line on which the string began, sets the
\* failure flag, and leaves the line counter as it was when the string
\* began, so that the EOF token is on that line too.
C18_UnterminatedKeepsLine ==
    [][(AtUnterminatedString /\ scanner' # scanner) =>
          /\ scanner'.has_error
          /\ scanner'.line = scanner.line
          /\ is_at_end(scanner')
          /\ stderr' = Append(stderr, report(scanner.line, "", "Unterminated string."))]_vars

\* Exactly one EOF token, the last of the list, with an empty lexeme and no
\* literal.
EndsWithOneEof ==
    /\ Scanned
    /\ \A i \in 1..Len(scanner.tokens) :
          scanner.tokens[i].token_type = "EOF" <=> i = Len(scanner.tokens)
    /\ scanner.tokens[Len(scanner.tokens)].lexeme = ""
    /\ scanner.tokens[Len(scanner.tokens)].literal = None

\* The loop of scan_tokens takes no further step: the Eof token is pushed,
\* or the process has exited.
ScanStopped == scanner # None /\ (Scanned \/ exit_code # None)

\* C19: scan_tokens comes to its end for every source, and the token list it
\* leaves ends with exactly one EOF token, of empty lexeme and no literal,
\* whether the scan has met lexical errors or not: every pass of the loop
\* moves the cursor forward, and a scan that takes no further step has
\* pushed its EOF token.
C19_EndsWithEof ==
    /\ [](ScanStopped => EndsWithOneEof)
    /\ [][ScanToken => scanner'.current > scanner.current]_vars

\* scan_tokens as a whole: the scanner it leaves, or the scanner at the
\* panic that ends it.
RECURSIVE scan_tokens(_)
scan_tokens(s) ==
    IF is_at_end(s) THEN ScanTokensEnd(s)
    ELSE LET r == ScanTokensStep(s)
         IN  IF r.panic THEN r.scanner ELSE scan_tokens(r.scanner)

\* The arm of scan_token that a grapheme selects is the last one.
IsUnknown(c) ==
    /\ c \notin DOMAIN SingleCharacterTokens
    /\ c \notin DOMAIN OperatorTokens
    /\ c \notin {"/", "\"", "\n", " ", "\r", "\t", "_"}
    /\ ~is_digit(c)
    /\ ~is_alphabetic(c)

\* The number of quotes among the first n graphemes; in a source without
\* comments the i-th grapheme is outside every string literal when it is
\* not a quote and an even number of quotes precede it.
Quotes(graphemes, n) == Cardinality({i \in 1..n : graphemes[i] = "\""})

UnknownAt(graphemes, i) ==
    IsUnknown(graphemes[i]) /\ Quotes(graphemes, i - 1) % 2 = 0

\* The source holds an unknown character or an unterminated string.
LexicalErrorMet(graphemes) ==
    \/ \E i \in 1..Len(graphemes) : UnknownAt(graphemes, i)
    \/ Quotes(graphemes, Len(graphemes)) % 2 = 1

\* The source with a space in the place of every unknown character.
Blanked(graphemes) ==
    [i \in 1..Len(graphemes) |-> IF UnknownAt(graphemes, i) THEN " " ELSE graphemes[i]]

\* C20: a lexical error does not end the scan.  At the end of the scan the
\* failure flag is set exactly when the source holds an unknown character or
\* an unterminated string, and the tokens are those of the source with its
\* unknown characters blanked, in the same order; and no pass of the loop
\* clears the flag once it is set.
C20_ErrorsDoNotStopScan ==
    /\ [](Scanned =>
            /\ scanner.has_error <=> LexicalErrorMet(scanner.graphemes)
            /\ scanner.tokens = scan_tokens(ScannerNew(Blanked(scanner.graphemes))).tokens)
    /\ [][(scanner # None /\ scanner.has_error) => scanner'.has_error]_vars

\* C20 witness: a scan has ended with the flag set, on a source that begins
\* with an unknown character and has a number and an identifier after it.
C20_Witness ==
    /\ Scanned
    /\ scanner.has_error
    /\ IsUnknown(scanner.graphemes[1])
    /\ Len(scanner.tokens) = 3
    /\ scanner.tokens[1].token_type = "NUMBER"
    /\ scanner.tokens[2].token_type = "IDENTIFIER"

(***************************************************************************)
(* ParseSpec: the Parser taken alone, on the token list that scan_tokens   *)
(* leaves for a source made of words separated by spaces.  The sources are *)
(* the chains of binary operators `1 op 2 op 3 ...` of at most             *)
(* MaxOperators operators, the assignments `target = value`, and every     *)
(* sequence of at most MaxWords words of ParseWords.  A behaviour parses   *)
(* the list once, as a single expression or as a program; of the latter    *)
(* each step is one pass of the loop of Parser::parse.  `parsed` holds the *)
(* method and its Result so far, with the cursor.                          *)
(***************************************************************************)
RECURSIVE Join(_)
Join(words) ==
    IF words = <<>> THEN <<>> ELSE Head(words) \o <<" ">> \o Join(Tail(words))

\* Two operators of each of the four levels.
BinaryWords ==
    {<<"=", "=">>, <<"!", "=">>, <<"<">>, <<">", "=">>,
     <<"+">>, <<"-">>, <<"*">>, <<"/">>}

\* 1 op[1] 2 op[2] 3 ...
Chain(ops) ==
    [i \in 1..(2 * Len(ops) + 1) |->
        IF i % 2 = 1 THEN <<ToString((i + 1) \div 2)>> ELSE ops[i \div 2]]

Chains == {Chain(ops) : ops \in UNION {[1..n -> BinaryWords] : n \in 0..MaxOperators}}

AssignTargets ==
    {<< <<"a">> >>, << <<"1">> >>, << <<"(">>, <<"a">>, <<")">> >>,
     << <<"-">>, <<"a">> >>, << <<"a">>, <<"+">>, <<"1">> >>,
     << <<"a">>, <<"=", "=">>, <<"b">> >>, << <<"\"", "s", "\"">> >>}

AssignValues ==
    {<< <<"1">> >>, << <<"b">> >>, << <<"b">>, <<"=">>, <<"c">> >>,
     << <<"b">>, <<"=">>, <<"c">>, <<"=">>, <<"1">> >>, << <<"1">>, <<"+">>, <<"b">> >>}

Assignments == {target \o << <<"=">> >> \o value : target \in AssignTargets, value \in AssignValues}

ParseWords ==
    {<<"1">>, <<"a">>, <<"=">>, <<";">>, <<"(">>, <<")">>, <<"+">>, <<"{">>, <<"}">>,
     <<"p", "r", "i", "n", "t">>, <<"v", "a", "r">>}

WordLists == UNION {[1..n -> ParseWords] : n \in 0..MaxWords}

ParseInputs == Chains \cup Assignments \cup WordLists

ParseInit ==
    /\ \E words \in ParseInputs : scanner = scan_tokens(ScannerNew(Join(words)))
    /\ parsed = None
    /\ command = None /\ panicked = FALSE
    /\ stack = <<>> /\ raised = None /\ stdout = <<>> /\ stderr = <<>>
    /\ exit_code = None /\ executed = <<>>
    /\ environment = <<>> /\ call = None

Parsing(method, result) == [type |-> "Parser", method |-> method, result |-> result]

ParseReport(r) ==
    IF r.ok THEN stderr ELSE Append(stderr, "Error: " \o ParserErrorDisplay(r.error))

\* Parser::parse_single_expr
ParseSingleExpr ==
    /\ parsed = None
    /\ LET r == expression(scanner.tokens, 0)
       IN  /\ parsed' = Parsing("parse_single_expr", r)
           /\ stderr' = ParseReport(r)
    /\ UNCHANGED <<stack, raised, stdout, exit_code, executed, command, scanner,
                   panicked, envVars>>

\* The statements and the cursor that the loop of Parser::parse holds.
ParseState == IF parsed = None THEN ParseOk(<<>>, 0) ELSE parsed.result

\* One pass of the loop of Parser::parse.
ParseDeclaration ==
    /\ IF parsed = None THEN TRUE ELSE parsed.method = "parse" /\ parsed.result.ok
    /\ ~ParserIsAtEnd(scanner.tokens, ParseState.current)
    /\ LET r == PushResult(ParseState.value,
                           declaration(scanner.tokens, ParseState.current))
       IN  /\ parsed' = Parsing("parse", r)
           /\ stderr' = ParseReport(r)
    /\ UNCHANGED <<stack, raised, stdout, exit_code, executed, command, scanner,
                   panicked, envVars>>

ParseNext ==
    \/ ParseSingleExpr
    \/ ParseDeclaration

ParseSpec == ParseInit /\ [][ParseNext]_vars

\* The precedence level of a binary operator: equality lowest, factor highest.
Level(token_type) ==
    CASE token_type \in {"BANG_EQUAL", "EQUAL_EQUAL"} -> 1
      [] token_type \in {"GREATER", "GREATER_EQUAL", "LESS", "LESS_EQUAL"} -> 2
      [] token_type \in {"MINUS", "PLUS"} -> 3
      [] token_type \in {"SLASH", "STAR"} -> 4
      [] OTHER -> 0

\* The tokens before the EOF token are number, operator, number, ...
IsChain(tokens) ==
    /\ Len(tokens) % 2 = 0
    /\ \A i \in 1..(Len(tokens) - 1) :
          IF i % 2 = 1 THEN tokens[i].token_type = "NUMBER"
          ELSE Level(tokens[i].token_type) > 0

\* The tree of the chain tokens[lo..hi]: its root is the last of the
\* operators of the lowest level in the chain, its operands the trees of the
\* chain before and of the chain after that operator.
RECURSIVE Tree(_, _, _)
Tree(tokens, lo, hi) ==
    IF lo = hi THEN LiteralExpr(tokens[lo].literal)
    ELSE LET operators == {i \in lo..hi : i % 2 = 0}
             lowest == {i \in operators :
                           \A j \in operators :
                               Level(tokens[i].token_type) <= Level(tokens[j].token_type)}
             root == CHOOSE i \in lowest : \A j \in lowest : j <= i
         IN  BinaryExpr(Tree(tokens, lo, root - 1), tokens[root],
                        Tree(tokens, root + 1, hi))

ParsedAs(method) == parsed # None /\ parsed.method = method

\* C21: the expression parsed from a chain of operands and binary operators
\* is the tree in which an operator of a higher level (factor over term over
\* comparison over equality) binds tighter and operators of one level
\* associate to the left, and the parse ends at the EOF token.
C21_PrecedenceAndLeftAssoc ==
    (ParsedAs("parse_single_expr") /\ IsChain(scanner.tokens)) =>
        /\ parsed.result.ok
        /\ parsed.result.value = Tree(scanner.tokens, 1, Len(scanner.tokens) - 1)
        /\ parsed.result.current = Len(scanner.tokens) - 1

\* C21 witness: `1 - 2 * 3 - 4` has been parsed as ((1 - (2 * 3)) - 4).
C21_Witness ==
    /\ ParsedAs("parse_single_expr")
    /\ Len(scanner.tokens) = 8
    /\ parsed.result.ok
    /\ parsed.result.value =
          BinaryExpr(BinaryExpr(Num(1), Token("MINUS", "-", None, 1),
                                BinaryExpr(Num(2), Token("STAR", "*", None, 1), Num(3))),
                     Token("MINUS", "-", None, 1), Num(4))

\* The tokens that scan_tokens leaves for a source of words.
TokensOf(words) == scan_tokens(ScannerNew(Join(words))).tokens

\* The tokens are those of `target = value`, for words of AssignTargets and
\* of AssignValues.
IsAssignment(tokens, target, value) == tokens = TokensOf(target \o << <<"=">> >> \o value)

C22_WitnessInvalidTarget ==
    /\ ParsedAs("parse_single_expr")
    /\ IsAssignment(scanner.tokens, << <<"(">>, <<"a">>, <<")">> >>, << <<"1">> >>)
    /\ ~parsed.result.ok
    /\ parsed.result.error.type = "InvalidAssignmentTarget"

\* The part of the statement that starts at cursor `start` which comes
\* before its `;`: the expression of a print or expression statement, the
\* name and the initializer of a variable declaration.
StatementBody(tokens, start) ==
    LET first == tokens[start + 1].token_type
    IN  IF first = "PRINT" THEN expression(tokens, start + 1)
        ELSE IF first = "VAR"
        THEN IF tokens[start + 2].token_type # "IDENTIFIER"
             THEN ParseErr(None, start + 1)
             ELSE IF tokens[start + 3].token_type = "EQUAL"
             THEN expression(tokens, start + 3)
             ELSE ParseOk(None, start + 2)
        ELSE IF first = "LEFT_BRACE" THEN ParseErr(None, start + 1)
        ELSE expression(tokens, start)

\* The print statement, expression statement or variable declaration at
\* `start` is complete but for its `;`.
LacksSemicolon(tokens, start) ==
    /\ StatementBody(tokens, start).ok
    /\ tokens[StatementBody(tokens, start).current + 1].token_type # "SEMICOLON"

\* A pass of the loop of Parser::parse is taken.
ParsePass == parsed' # parsed /\ parsed'.method = "parse"

\* A statement that lacks its `;` fails with the missing-semicolon kind.
MissingSemicolonKind ==
    [][(ParsePass /\ LacksSemicolon(scanner.tokens, ParseState.current)) =>
          /\ ~parsed'.result.ok
          /\ parsed'.result.error.type = "NoSemicolon"]_vars

\* C23: a print statement, expression statement or variable declaration
\* that lacks its `;` fails with the missing-semicolon error kind, and the
\* token of the error is the last token of the unterminated statement, the
\* one after which the semicolon was expected.
C23_MissingSemicolonToken ==
    [][(ParsePass /\ LacksSemicolon(scanner.tokens, ParseState.current)) =>
          /\ ~parsed'.result.ok
          /\ parsed'.result.error =
                ParserError("NoSemicolon",
                            ParserPrevious(scanner.tokens,
                                           StatementBody(scanner.tokens,
                                                         ParseState.current).current))]_vars

\* The rendering of the chain tokens[lo..hi] from its tree: the operator as
\* head, the operands rendered in turn, single spaces between, and a number
\* as it is written in the source.
RECURSIVE Rendering(_, _, _)
Rendering(tokens, lo, hi) ==
    IF lo = hi THEN tokens[lo].lexeme
    ELSE LET t == Tree(tokens, lo, hi)
             root == CHOOSE i \in lo..hi : i % 2 = 0 /\ t.left = Tree(tokens, lo, i - 1)
         IN  "(" \o tokens[root].lexeme \o " " \o Rendering(tokens, lo, root - 1)
             \o " " \o Rendering(tokens, root + 1, hi) \o ")"

\* C24: the rendering of the expression parsed from a chain is fully
\* parenthesized, with the operator as head and the operands rendered
\* recursively and separated by single spaces, and every number literal
\* renders as it was written in the source: `1 + 2 * 3` renders as
\* (+ 1 (* 2 3)).
C24_RenderingOfChain ==
    (ParsedAs("parse_single_expr") /\ IsChain(scanner.tokens) /\ parsed.result.ok) =>
        accept(parsed.result.value) =
            Rendering(scanner.tokens, 1, Len(scanner.tokens) - 1)

\* C25: when the assignment `x = e` evaluates without error, x being
\* declared, the assignment yields the value that e evaluated to, and a
\* read of x after it returns that value, also when that value is the
\* absent value of a declared variable that was given no initializer.
C25_AssignThenRead ==
    [][(call' # call /\ call'.expr.type = "Assign" /\ call'.result.ok) =>
          LET v == Evaluate(call'.expr.value, environment).value
              read == get(environment', call'.expr.name)
          IN  /\ call'.result.value = v
              /\ read.ok
              /\ read.value = v]_vars

(***************************************************************************)
(* SpaceSpec: scan_tokens on the sources of at most MaxSource text         *)
(* elements that hold valid tokens, `//` comments and white space only.    *)
(* Scanner::new splits the source with graphemes(true), the extended       *)
(* grapheme clusters, of which a carriage return followed by a line feed   *)
(* is one: CRLF is that text element.                                      *)
(***************************************************************************)
CRLF == "\r\n"

SpaceAlphabet == {"1", "a", "/", " ", "\t", "\r", "\n", CRLF}

SpaceSources == UNION { [1..n -> SpaceAlphabet] : n \in 0..MaxSource }

SpaceInit ==
    /\ \E source \in SpaceSources : scanner = ScannerNew(source)
    /\ command = None /\ parsed = None /\ panicked = FALSE
    /\ stack = <<>> /\ raised = None /\ stdout = <<>> /\ stderr = <<>>
    /\ exit_code = None /\ executed = <<>>
    /\ environment = <<>> /\ call = None

SpaceSpec == SpaceInit /\ [][ScanNext]_vars

\* The source with a line feed in the place of every CRLF.
LineFeeds(graphemes) ==
    [i \in 1..Len(graphemes) |-> IF graphemes[i] = CRLF THEN "\n" ELSE graphemes[i]]

LineEnds(graphemes) ==
    Cardinality({i \in 1..Len(graphemes) : graphemes[i] \in {"\n", CRLF}})

\* C26: white space gives no token and no lexical error.  A source of valid
\* tokens, comments and any mix of space, tab, carriage return, line feed
\* and CRLF scans without error, each line end counts once, and a comment
\* ends at the line end: the tokens, lines included, are those of the
\* source with a plain line feed in the place of every CRLF.
C26_Whitespace ==
    Scanned =>
        /\ ~scanner.has_error
        /\ stderr = <<>>
        /\ scanner.tokens[Len(scanner.tokens)].line = 1 + LineEnds(scanner.graphemes)
        /\ scanner.tokens = scan_tokens(ScannerNew(LineFeeds(scanner.graphemes))).tokens

\* The cursors from which the loops of parse and of block call declaration:
\* every index of the list but that of its EOF token.
Cursors(tokens) == 0..(Len(tokens) - 2)

InRange(tokens, from, current) == from <= current /\ current <= Len(tokens) - 1

\* C27: on a token list that ends with its EOF token the cursor of the
\* parser stays within 0 .. number of tokens - 1 and never passes the EOF
\* token: after every pass of the loop of parse, and, for the list as the
\* parser receives it, at the return of expression, statement, declaration
\* and synchronize called at any cursor before the EOF token, the cursor is
\* in that range and not behind the one the call began with; and the
\* advance that opens synchronize leaves the cursor at 1 or more, so that
\* previous() reads a token of the list.
C27_CursorInRange ==
    Scanned =>
        LET tokens == scanner.tokens
        IN  IF parsed # None THEN InRange(tokens, 0, parsed.result.current)
            ELSE \A start \in Cursors(tokens) :
                  /\ InRange(tokens, start, expression(tokens, start).current)
                  /\ InRange(tokens, start, declaration(tokens, start).current)
                  /\ InRange(tokens, start, statement(tokens, start).current)
                  /\ InRange(tokens, start, synchronize(tokens, start))
                  /\ ~statement(tokens, start).ok =>
                        ParserAdvance(tokens, statement(tokens, start).current) >= 1

\* C27 witness: a program whose first token begins no statement has failed,
\* and synchronize has moved the cursor over two more tokens up to the EOF
\* token.
C27_Witness ==
    /\ ParsedAs("parse")
    /\ ~parsed.result.ok
    /\ Len(scanner.tokens) = 4
    /\ scanner.tokens[1].token_type = "RIGHT_PAREN"
    /\ parsed.result.current = Len(scanner.tokens) - 1

=============================================================================
